---- MODULE Spec2Model ----
(***************************************************************************)
(* A model of the multi-phase LLM orchestration pipeline of                *)
(* pedram_intelligence: the phase functions of                             *)
(* intelligence_question_generator.py and the Streamlit front-end app.py.  *)
(*                                                                         *)
(* Text is modelled as a sequence of tokens (strings): "\n" is a newline,  *)
(* " " and "\t" are whitespace, every other token is a run of printable    *)
(* characters.  A Gateway response is a record                             *)
(*   [kind |-> "failure" | "nochoices" | "ok", content |-> text, ...].     *)
(***************************************************************************)
EXTENDS Integers, Sequences, FiniteSets, TLC

VARIABLES
    \* ---- generate_pms_questions (Phase 2) ----
    pc2,          \* "idle" | "loop" | "returned" | "prompted" | "aborted" | "patched"
    idx,          \* 1-based position of the loop over models_to_use
    results,      \* the dict results: model -> list of questions
    responses2,   \* the Gateway responses received so far, in call order
    sleeps2,      \* number of time.sleep(3) calls made
    pms_doc,      \* pms_questions.json: [exists, data]
    flat_questions,   \* the list create_consolidation_prompt numbers
    \* ---- consolidate_questions (Phase 3) ----
    pc3,          \* "idle" | "returned"
    response3,    \* the Gateway response of the call
    final_questions,  \* the list returned
    final_doc,    \* final_questions.json: [exists, data]
    \* ---- perform_risk_assessment, develop_derisking_strategies ----
    pc45,         \* "idle" | "assessed" | "derisked" | "raised" | "scripted"
    final_in,     \* final_questions_data handed to Phase 4
    response4,    \* the Gateway response of the Phase 4 call
    bundle,       \* what perform_risk_assessment returned; the caller hands
                  \* bundle.risks, this very list, to Phase 5
    risk_doc,     \* risk_assessment.json: [exists, data]
    risk_json,    \* the JSON document risk_assessment.json holds
    caller45,     \* "none" | "cli" | "app": who runs phases 4 and 5
    pcr,          \* run_risk_assessment.py: "idle" | "returned" | "raised"
    given5,       \* the list as it was when Phase 5 was called
    responses5,   \* the Gateway responses of the Phase 5 calls, in call order
    derisked,     \* the list develop_derisking_strategies returned
    derisk_doc,   \* detailed_risk_report_with_strategies.json: [exists, data]
    calls5,       \* positions of the records a Phase 5 call was issued for
    \* ---- the front-end app.py and the CLI driver main_cli ----
    session,      \* st.session_state: phase 1..6 -> artifact or None
    files,        \* the artifact store: phase 1..6 -> what its document holds
    reset_trigger,    \* st.session_state.reset_trigger
    reset_phase,      \* st.session_state.reset_phase
    made,         \* number of artifacts produced so far
    before,       \* history: session as it was when reset_state was called
    just_reset,   \* history: phase of the reset the last script run processed, or 0
    inv,          \* history: the phase function the last step invoked, if any
    cli,          \* main_cli's locals: phase 1..6 -> artifact or None
    pc_cli,       \* main_cli's position: "off" | "p2" | ... | "p6"
    \* ---- perform_strategic_reflection (Phase 6) ----
    pc6,          \* "idle" | "returned" | "raised"
    caller6,      \* "none" | "cli" | "app": who called the function
    response6,    \* the Gateway response of the call
    reflection,   \* what the function returned
    reflection_doc,   \* strategic_reflection.json: [exists, data]
    doc6_before,  \* history: strategic_reflection.json before the call
    writes6,      \* number of writes to strategic_reflection.json
    \* ---- parse_json_from_llm_response ----
    pcj,          \* "idle" | "parsed"
    lead_j,       \* what the response holds before the document and its fence
    opener_j,     \* the opening fence, if any
    trail_j,      \* what the response holds after the document and its fence
    denoted_j,    \* the value the JSON document denotes
    parsed_j,     \* what parse_json_from_llm_response returned
    \* ---- call_openrouter_api ----
    pcg,          \* "idle" | "returned" | "raised"
    model_g,      \* the argument model
    json_g,       \* the argument is_json_output
    post_g,       \* what requests.post does with the request
    payload_g,    \* the payload sent
    result_g,     \* what the function returned
    \* ---- a front-end session over the phase functions ----
    pipe,         \* phase 2..6 -> the session value: [present, value]
    pipe_ran,     \* the phases whose handler has run
    pipe_failed,  \* every Gateway call made so far returned None
    \* ---- save_state_to_file and the loads of a document ----
    pcs,          \* "idle" | "saved" | "loaded"
    phase_s,      \* the phase whose artifact is saved and loaded
    session_s,    \* the session key of that phase: Absent (None) or Present(v)
    saved_s,      \* history: the session value when the handler saved
    doc_s,        \* the document of that phase: [exists, json]
    via_s,        \* history: how the document was loaded back
    \* ---- the context field of the front-end ----
    context_w,      \* what the text_area of the sidebar returns
    extracted_data, \* the session key extracted_data: Absent or Present(v)
    extracted_doc,  \* the document extracted_data.json: [exists, json]
    later,          \* phases 2..6: [session, files], those holding an artifact
    before_i,       \* history: the four above before the last step
    last_i,         \* history: the last step
    \* ---- the start of a new session ----
    pcn,          \* "fresh" | "started" | "raised"
    store_n,      \* the artifact store: phase 1..6 -> what its document holds
    session_n,    \* st.session_state: phase 1..6 -> Unset, None or artifact
    read_n,       \* what reading a key that was never assigned gave
    \* ---- develop_derisking_strategies invoked twice ----
    pct,          \* "idle" | "once" | "twice"
    given_t,      \* history: the Phase 4 list before the first invocation
    list_t,       \* the Phase 4 list the caller holds
    first_t,      \* outcome of the first invocation
    second_t      \* outcome of the second invocation
VARIABLES processing_phase, running_h, present_h, ended_h, done_h
VARIABLES since_reset
VARIABLES pcq, list_q, bundle_q, via_q

vars2 == <<pc2, idx, results, responses2, sleeps2, pms_doc, flat_questions>>
vars3 == <<pc3, response3, final_questions, final_doc>>
vars45 == <<pc45, final_in, response4, bundle, risk_doc, given5, responses5,
            derisked, derisk_doc, calls5, risk_json, caller45, pcr>>
varsApp == <<session, files, reset_trigger, reset_phase, made, before,
             just_reset, inv, cli, pc_cli>>
vars6 == <<pc6, caller6, response6, reflection, reflection_doc, doc6_before,
           writes6>>
varsJ == <<pcj, lead_j, opener_j, trail_j, denoted_j, parsed_j>>
varsG == <<pcg, model_g, json_g, post_g, payload_g, result_g>>
varsPipe == <<pipe, pipe_ran, pipe_failed>>
varsS == <<pcs, phase_s, session_s, saved_s, doc_s, via_s>>
varsI == <<context_w, extracted_data, extracted_doc, later, before_i, last_i>>
varsN == <<pcn, store_n, session_n, read_n>>
varsT == <<pct, given_t, list_t, first_t, second_t>>
varsH == <<processing_phase, running_h, present_h, ended_h, done_h>>
varsK == <<since_reset>>
varsQ == <<pcq, list_q, bundle_q, via_q>>
vars == <<vars2, vars3, vars45, varsApp, vars6, varsJ, varsG, varsPipe, varsS, varsI, varsN, varsT, varsH, varsK, varsQ>>

(***************************************************************************)
(* Bounds of the model.                                                    *)
(***************************************************************************)
NumModels == 2      \* how many models of LLM_MODELS_FULL are configured
MaxLines == 11      \* most non-blank lines a Phase 2 response holds
MaxFinal == 6       \* most records in a model's final_questions list
MaxRisks == 6       \* most records in a model's risk_assessments list
MaxRuns == 3        \* most artifacts produced in one behaviour of the front-end

(***************************************************************************)
(* Program constants.                                                      *)
(***************************************************************************)
RequiredCount == 10

LLM_MODELS_FULL ==
    << "openai/o1-mini", "anthropic/claude-3.7-sonnet",
       "google/gemini-2.5-flash-preview", "x-ai/grok-3-beta",
       "deepseek/deepseek-chat-v3-0324", "arcee-ai/maestro-reasoning",
       "qwen/qwq-32b", "perplexity/sonar-reasoning-pro",
       "meta-llama/llama-4-maverick", "mistralai/mistral-medium-3" >>

models_to_use == SubSeq(LLM_MODELS_FULL, 1, NumModels)

(***************************************************************************)
(* Text helpers: str.strip(), str.split(sep), list comprehension filter.   *)
(***************************************************************************)
NL == "\n"
Whitespace == {" ", "\t"}

SetMin(S) == CHOOSE x \in S : \A y \in S : x <= y
SetMax(S) == CHOOSE x \in S : \A y \in S : x >= y

\* str.strip(): drop the leading and the trailing whitespace
strip(s) ==
    LET solid == {i \in 1..Len(s) : s[i] \notin Whitespace}
    IN  IF solid = {} THEN <<>> ELSE SubSeq(s, SetMin(solid), SetMax(solid))

\* str.split(sep): the pieces between the separators, empty pieces included
split(s, sep) ==
    LET cuts == {i \in 1..Len(s) : s[i] = sep}
        nth(j) == CHOOSE i \in cuts : Cardinality({k \in cuts : k < i}) = j - 1
        from(j) == IF j = 1 THEN 1 ELSE nth(j - 1) + 1
        upto(j) == IF j = Cardinality(cuts) + 1 THEN Len(s) ELSE nth(j) - 1
    IN  [j \in 1..(Cardinality(cuts) + 1) |-> SubSeq(s, from(j), upto(j))]

NonBlank(line) == strip(line) # <<>>

(***************************************************************************)
(* Sentinel and placeholder strings of Phase 2.                            *)
(***************************************************************************)
ModelFailedContent == << "[Model failed to provide content]" >>

FewerPlaceholder(i) ==
    << "[Model provided fewer", " than 10 questions, placeholder ", ToString(i), "]" >>

FailedSentinel(model) ==
    << "[Failed", " to generate question from model ", model, "]" >>

(***************************************************************************)
(* extract_questions_from_pms_response                                     *)
(***************************************************************************)
StrippedLines(response_content) ==
    LET lines == split(response_content, NL)
        kept == SelectSeq(lines, NonBlank)
    IN  [k \in 1..Len(kept) |-> strip(kept[k])]

\* pads, but forgets to cut a longer list down
PadOrTruncate_NoTruncate(questions) ==
    IF Len(questions) < RequiredCount
    THEN questions \o [k \in 1..(RequiredCount - Len(questions)) |->
                          FewerPlaceholder(Len(questions) + k)]
    ELSE questions

PadOrTruncate(questions) ==
    IF Len(questions) < RequiredCount
    THEN questions \o [k \in 1..(RequiredCount - Len(questions)) |->
                          FewerPlaceholder(Len(questions) + k)]
    ELSE IF Len(questions) > RequiredCount
         THEN SubSeq(questions, 1, RequiredCount)
         ELSE questions

extract_questions_from_pms_response(response_content) ==
    IF response_content = <<>>
    THEN [k \in 1..RequiredCount |-> ModelFailedContent]
    ELSE PadOrTruncate(StrippedLines(response_content))

(***************************************************************************)
(* The Gateway responses Phase 2 is exercised with.                        *)
(***************************************************************************)
QuestionLine(k) == << "Q", ToString(k) >>

\* n questions, one per line, nothing else
PlainContent(n) ==
    [p \in 1..(IF n = 0 THEN 0 ELSE 3 * n - 1) |->
        IF p % 3 = 0 THEN NL
        ELSE QuestionLine((p + 2) \div 3)[p % 3]]

\* n questions with surrounding whitespace, blank and whitespace-only lines
SpacedBlock(k) == << " " >> \o QuestionLine(k) \o << "\t", NL, " ", NL, NL >>

SpacedContent(n) ==
    << " ", NL >> \o
    [p \in 1..(8 * n) |-> SpacedBlock((p + 7) \div 8)[((p - 1) % 8) + 1]]

LineCounts == {0, 1, RequiredCount - 1} \cup (RequiredCount .. MaxLines)

Contents2 ==
    {PlainContent(n) : n \in LineCounts} \cup {SpacedContent(n) : n \in LineCounts}

\* call_openrouter_api returned None / a dict with no (or empty) 'choices' /
\* a dict whose choices[0].message.content is c
Failure == [kind |-> "failure", content |-> <<>>]
NoChoices == [kind |-> "nochoices", content |-> <<>>]
OkResponse(c) == [kind |-> "ok", content |-> c]
\* a dict whose choices[0].message.content is null
NullContent == [kind |-> "null", content |-> <<>>]

HasChoices(response_data) == response_data.kind \in {"ok", "null"}
ContentIsNone(response_data) == response_data.kind = "null"

Responses2 == {Failure, NoChoices, NullContent} \cup {OkResponse(c) : c \in Contents2}

(***************************************************************************)
(* generate_pms_questions: one action per loop iteration.                  *)
(***************************************************************************)
NoDoc == [exists |-> FALSE, data |-> <<>>]

ModelEntry_NoSentinel(model, response_data) ==
    extract_questions_from_pms_response(response_data.content)

ModelEntry(model, response_data) ==
    IF HasChoices(response_data)
    THEN extract_questions_from_pms_response(response_data.content)
    ELSE [k \in 1..RequiredCount |-> FailedSentinel(model)]

P2Start ==
    /\ pc2 = "idle"
    /\ pc2' = "loop"
    /\ idx' = 1
    /\ results' = <<>>
    /\ responses2' = <<>>
    /\ sleeps2' = 0
    /\ UNCHANGED <<pms_doc, flat_questions>>

\* sleeps after every call, the last one too
NeedsDelay_Always(position, count) == TRUE

\* "if i < len(models_to_use) - 1" for the call at this position of the list
NeedsDelay(position, count) == position < count

\* one pass of the loop body: the call, the entry of the model, the delay
P2Iter ==
    /\ pc2 = "loop"
    /\ idx <= Len(models_to_use)
    /\ \E response_data \in Responses2 :
          /\ results' = (models_to_use[idx] :> ModelEntry(models_to_use[idx], response_data))
                            @@ results
          /\ responses2' = Append(responses2, response_data)
    /\ sleeps2' = IF NeedsDelay(idx, Len(models_to_use)) THEN sleeps2 + 1 ELSE sleeps2
    /\ idx' = idx + 1
    /\ UNCHANGED <<pc2, pms_doc, flat_questions>>

\* The write of lines 249-250 moved into the loop
P2Return_Early ==
    /\ pc2 = "loop"
    /\ pms_doc' = [exists |-> TRUE, data |-> results]
    /\ pc2' = "returned"
    /\ UNCHANGED <<idx, results, responses2, sleeps2, flat_questions>>

P2Return ==
    /\ pc2 = "loop"
    /\ idx > Len(models_to_use)
    /\ pms_doc' = [exists |-> TRUE, data |-> results]
    /\ pc2' = "returned"
    /\ UNCHANGED <<idx, results, responses2, sleeps2, flat_questions>>

\* The run ends inside the loop: an exception that is not a RequestException
\* (a KeyboardInterrupt during the call or the sleep, a KeyError on a response
\* whose choice holds no message) leaves generate_pms_questions from the loop
\* body.
P2Abort ==
    /\ pc2 = "loop"
    /\ idx <= Len(models_to_use)
    /\ pc2' = "aborted"
    /\ UNCHANGED <<idx, results, responses2, sleeps2, pms_doc, flat_questions>>

\* run_arcee_maestro_only: one call for the one model, merged into what
\* pms_questions.json holds, written back after the call.
ArceeModel == "arcee-ai/maestro-reasoning"

\* writes the one entry alone
ArceeUpdate_Alone(existing_data, response_data) ==
    (ArceeModel :> ModelEntry(ArceeModel, response_data))

ArceeUpdate(existing_data, response_data) ==
    (ArceeModel :> ModelEntry(ArceeModel, response_data)) @@ existing_data

\* the answers the one call is exercised with
ArceeResponses ==
    {Failure, OkResponse(<<>>)}
    \cup {OkResponse(PlainContent(n)) : n \in {RequiredCount - 1, MaxLines}}

\* The script is run once a run of Phase 2 has ended, over the document that
\* run left or did not leave, and again over the document it wrote itself.
ArceeRun ==
    /\ pc2 \in {"returned", "aborted", "patched"}
    /\ \E response_data \in ArceeResponses :
          pms_doc' = [exists |-> TRUE,
                      data |-> ArceeUpdate(IF pms_doc.exists THEN pms_doc.data ELSE <<>>,
                                           response_data)]
    /\ pc2' = "patched"
    /\ UNCHANGED <<idx, results, responses2, sleeps2, flat_questions>>

\* q_text.startswith(prefix) for a prefix that is the first token of a sentinel
startswith(q_text, prefix) == Len(q_text) > 0 /\ q_text[1] = prefix

\* the test of line 262
KeptInPrompt(q_text) ==
    ~startswith(q_text, "[Failed") /\ ~startswith(q_text, "[Model provided fewer")

\* all_pms_questions.items() in insertion order, each list in its own order
AllEntries(all_pms_questions) ==
    [p \in 1..(Len(models_to_use) * RequiredCount) |->
        all_pms_questions[models_to_use[((p - 1) \div RequiredCount) + 1]]
                         [((p - 1) % RequiredCount) + 1]]

\* create_consolidation_prompt: flat_questions, which the prompt numbers 1..n
create_consolidation_prompt(all_pms_questions) ==
    SelectSeq(AllEntries(all_pms_questions), KeptInPrompt)

\* consolidate_questions, first statement: the prompt is built from the set
\* Phase 2 returned
P3Prompt ==
    /\ pc2 = "returned"
    /\ flat_questions' = create_consolidation_prompt(results)
    /\ pc2' = "prompted"
    /\ UNCHANGED <<idx, results, responses2, sleeps2, pms_doc>>

InitP2 ==
    /\ pc2 = "idle"
    /\ idx = 1
    /\ results = <<>>
    /\ responses2 = <<>>
    /\ sleeps2 = 0
    /\ pms_doc = NoDoc
    /\ flat_questions = <<>>

NextP2 == P2Start \/ P2Iter \/ P2Return \/ P2Abort \/ P3Prompt \/ ArceeRun

(***************************************************************************)
(* JSON mode.  In a JSON-mode response the token "J" is the text of one    *)
(* JSON document and the field json of the response is the value that    *)
(* text denotes; "X" is text that is not JSON (prose, a truncated          *)
(* document); FENCE is a code fence (three backquotes) and "json" right    *)
(* after it its language tag.                                              *)
(*                                                                         *)
(* A JSON value is [type, keys, islist, value]: for a dict, keys are its *)
(* top-level keys and value is what the key the phase asks for maps to   *)
(* (islist: whether that is a list).                                     *)
(***************************************************************************)
FENCE == "<fence>"
LANG == "json"
JTEXT == "J"
PROSE == "X"
JsonWhitespace == {" ", "\t", NL}

JsonResponse(kind, content, json) == [kind |-> kind, content |-> content, json |-> json]

\* str.strip() on a text that may hold newlines
stripws(s) ==
    LET solid == {i \in 1..Len(s) : s[i] \notin JsonWhitespace}
    IN  IF solid = {} THEN <<>> ELSE SubSeq(s, SetMin(solid), SetMax(solid))

\* re.search of the pattern  FENCE json \s* ([\s\S]*?) \s* FENCE : the leftmost
\* tagged fence that a later fence closes; group(1) is what lies between,
\* without the whitespace at its two ends.
FenceOpens(s) ==
    {i \in 1..(Len(s) - 1) :
        /\ s[i] = FENCE
        /\ s[i + 1] = LANG
        /\ \E j \in (i + 2)..Len(s) : s[j] = FENCE}

FenceMatch(s) == FenceOpens(s) # {}

FenceGroup(s) ==
    LET i == SetMin(FenceOpens(s))
        j == SetMin({k \in (i + 2)..Len(s) : s[k] = FENCE})
    IN  stripws(SubSeq(s, i + 2, j - 1))

\* json.loads(json_str): the text must be one JSON document, with nothing but
\* whitespace around it
JsonLoads(json_str, denoted, failed) ==
    IF stripws(json_str) = << JTEXT >> THEN denoted ELSE failed

\* parse_json_from_llm_response.  None is failed.
parse_json_from_llm_response(response_content, denoted, failed) ==
    IF response_content = <<>> THEN failed
    ELSE IF FenceMatch(response_content)
         THEN JsonLoads(FenceGroup(response_content), denoted, failed)
         ELSE JsonLoads(response_content, denoted, failed)

\* The ways a model lays out its answer around the JSON document.
Layouts ==
    { << JTEXT >>,                                         \* the bare document
      << FENCE, LANG, NL, JTEXT, NL, FENCE >>,             \* fenced, json tag
      << PROSE, NL, FENCE, LANG, NL, JTEXT, NL, FENCE, NL, PROSE >>,
      << FENCE, NL, JTEXT, NL, FENCE >>,                   \* fenced, no tag
      << JTEXT, NL, PROSE >>,                              \* trailing prose
      << PROSE >>,                                         \* no JSON at all
      << >> }                                              \* empty content

\* Python truthiness of a parsed value
Truthy(v) ==
    CASE v.type = "none" -> FALSE
      [] v.type = "dict" -> v.keys # {}
      [] OTHER -> TRUE

(***************************************************************************)
(* Phase 3: consolidate_questions                                          *)
(***************************************************************************)
NumFinal == 5

Question(n, text, reasoning) ==
    [question_number |-> n, question_text |-> text, reasoning |-> reasoning]

ParseErrorQuestion(i) == Question(i, << "[Consolidation Error: Failed to parse]" >>, "N/A")
NoResponseQuestion(i) == Question(i, << "[Consolidation Error: No LLM response]" >>, "N/A")
MissingQuestion(i) ==
    Question(i, << "[Consolidation Error: Missing question ", ToString(i), "]" >>, "[Error]")

NoneJson3 == [type |-> "none", keys |-> {}, islist |-> FALSE, value |-> <<>>]

ParsedFinalQuestions(response_data) ==
    LET parsed_json == parse_json_from_llm_response(response_data.content,
                                                    response_data.json, NoneJson3)
    IN  IF /\ Truthy(parsed_json)
           /\ parsed_json.type = "dict"
           /\ "final_questions" \in parsed_json.keys
           /\ parsed_json.islist
        THEN parsed_json.value
        ELSE [i \in 1..NumFinal |-> ParseErrorQuestion(i)]

\* pads a short list and keeps a long one whole
EnsureFive_PadOnly(final_questions_list) ==
    final_questions_list \o
    [k \in 1..(IF Len(final_questions_list) < NumFinal
               THEN NumFinal - Len(final_questions_list) ELSE 0) |->
        MissingQuestion(Len(final_questions_list) + k)]

\* lines 332-341: the list is brought to five records
EnsureFive(final_questions_list) ==
    IF Len(final_questions_list) < NumFinal
    THEN final_questions_list \o
         [k \in 1..(NumFinal - Len(final_questions_list)) |->
             MissingQuestion(Len(final_questions_list) + k)]
    ELSE IF Len(final_questions_list) > NumFinal
         THEN SubSeq(final_questions_list, 1, NumFinal)
         ELSE final_questions_list

\* without the placeholders of line 329
consolidate_questions_NoPlaceholders(response_data) ==
    IF HasChoices(response_data)
    THEN EnsureFive(ParsedFinalQuestions(response_data))
    ELSE <<>>

consolidate_questions(response_data) ==
    EnsureFive(IF HasChoices(response_data)
               THEN ParsedFinalQuestions(response_data)
               ELSE [i \in 1..NumFinal |-> NoResponseQuestion(i)])

\* The question the model wrote at position k of its list, which it numbered n
LLMQuestion(k, n) == Question(n, << "LLM question ", ToString(k) >>, "LLM reasoning")

\* A model numbers the record at position k with k, or repeats number 1, or
\* counts from 2.
Numberings(n) == [1..n -> {0, 1, 2}]
NumberAt(k, choice) == CASE choice = 0 -> k [] choice = 1 -> 1 [] OTHER -> k + 1

FinalQuestionLists ==
    UNION {{[k \in 1..n |-> LLMQuestion(k, NumberAt(k, f[k]))] : f \in Numberings(n)}
           : n \in 0..MaxFinal}

Jsons3 ==
    {[type |-> "dict", keys |-> {"final_questions"}, islist |-> TRUE, value |-> l]
        : l \in FinalQuestionLists}
    \cup {[type |-> "dict", keys |-> {"final_questions"}, islist |-> FALSE, value |-> <<>>],
          [type |-> "dict", keys |-> {"questions"}, islist |-> TRUE, value |-> <<>>],
          [type |-> "dict", keys |-> {}, islist |-> FALSE, value |-> <<>>]}

Responses3 ==
    {JsonResponse("failure", <<>>, NoneJson3), JsonResponse("nochoices", <<>>, NoneJson3),
     JsonResponse("null", <<>>, NoneJson3)}
    \cup {JsonResponse("ok", c, j) : c \in Layouts, j \in Jsons3}

P3Call ==
    /\ pc3 = "idle"
    /\ \E response_data \in Responses3 :
          /\ response3' = response_data
          /\ final_questions' = consolidate_questions(response_data)
          /\ final_doc' = [exists |-> TRUE, data |-> consolidate_questions(response_data)]
    /\ pc3' = "returned"

InitP3 ==
    /\ pc3 = "idle"
    /\ response3 = JsonResponse("failure", <<>>, NoneJson3)
    /\ final_questions = <<>>
    /\ final_doc = NoDoc

(***************************************************************************)
(* Phase 4: perform_risk_assessment                                        *)
(*                                                                         *)
(* A de_risking_plan value is [present, keys, note]: present is FALSE when *)
(* the record has no "de_risking_plan" key, keys are the keys of the plan. *)
(* A question_text of AbsentText stands for a record without that key.     *)
(***************************************************************************)
AbsentText == << "<no question_text key>" >>
NoPlan == [present |-> FALSE, keys |-> {}, note |-> ""]

Risk(n, text, category, p, i, score, tier, justification, plan) ==
    [question_number |-> n, question_text |-> text, risk_category |-> category,
     probability |-> p, impact |-> i, risk_score |-> score, risk_tier |-> tier,
     justification |-> justification, de_risking_plan |-> plan]

PlaceholderRisk(q_data) ==
    Risk(q_data.question_number, q_data.question_text, "[Assessment Error]",
         0, 0, 0, "Error", "Failed to get or parse assessment from LLM.", NoPlan)

\* the first question of final_questions_data with the record's number, if any
OriginalQ(final_questions_data, risk_item) ==
    LET hits == {k \in 1..Len(final_questions_data) :
                    final_questions_data[k].question_number = risk_item.question_number}
    IN  IF hits = {} THEN <<>> ELSE << final_questions_data[SetMin(hits)] >>

FillQuestionText(final_questions_data, risk_item) ==
    LET original_q == OriginalQ(final_questions_data, risk_item)
    IN  IF original_q # <<>> /\ risk_item.question_text = AbsentText
        THEN [risk_item EXCEPT !.question_text = original_q[1].question_text]
        ELSE risk_item

NoneJson4 == [type |-> "none", keys |-> {}, islist |-> FALSE, value |-> <<>>]

ParsedRisks(final_questions_data, response_data) ==
    IF ~HasChoices(response_data) THEN <<>>
    ELSE LET parsed_json == parse_json_from_llm_response(response_data.content,
                                                         response_data.json, NoneJson4)
         IN  IF /\ Truthy(parsed_json)
                /\ parsed_json.type = "dict"
                /\ "risk_assessments" \in parsed_json.keys
                /\ parsed_json.islist
             THEN [k \in 1..Len(parsed_json.value) |->
                      FillQuestionText(final_questions_data, parsed_json.value[k])]
             ELSE <<>>

\* keeps what was parsed and adds placeholders for the questions beyond it
AcceptOrPlaceholders_Pad(final_questions_data, risk_assessment_list) ==
    IF Len(risk_assessment_list) < Len(final_questions_data)
    THEN risk_assessment_list \o
         [k \in 1..(Len(final_questions_data) - Len(risk_assessment_list)) |->
             PlaceholderRisk(final_questions_data[Len(risk_assessment_list) + k])]
    ELSE SubSeq(risk_assessment_list, 1, Len(final_questions_data))

\* "If parsing failed or list is incomplete, create placeholders"
AcceptOrPlaceholders(final_questions_data, risk_assessment_list) ==
    IF risk_assessment_list = <<>> \/ Len(risk_assessment_list) # Len(final_questions_data)
    THEN [k \in 1..Len(final_questions_data) |-> PlaceholderRisk(final_questions_data[k])]
    ELSE risk_assessment_list

\* a descending sort that puts records of equal score in reverse order
SortByScoreDesc_TiesReversed(l) ==
    LET rank(i) == Cardinality({j \in 1..Len(l) :
                        \/ l[j].risk_score > l[i].risk_score
                        \/ (l[j].risk_score = l[i].risk_score /\ j > i)}) + 1
    IN  [p \in 1..Len(l) |-> l[CHOOSE i \in 1..Len(l) : rank(i) = p]]

\* list.sort(key=risk_score, reverse=True): stable, equal scores keep their order
SortByScoreDesc(l) ==
    LET rank(i) == Cardinality({j \in 1..Len(l) :
                        \/ l[j].risk_score > l[i].risk_score
                        \/ (l[j].risk_score = l[i].risk_score /\ j < i)}) + 1
    IN  [p \in 1..Len(l) |-> l[CHOOSE i \in 1..Len(l) : rank(i) = p]]

\* counts every record outside High and Medium as Low
CountTier_Rest(l, tier) ==
    Cardinality({k \in 1..Len(l) :
                    IF tier = "Low" THEN l[k].risk_tier \notin {"High", "Medium"}
                    ELSE l[k].risk_tier = tier})

CountTier(l, tier) == Cardinality({k \in 1..Len(l) : l[k].risk_tier = tier})

SummaryStats(l) ==
    [high_risks |-> CountTier(l, "High"), medium_risks |-> CountTier(l, "Medium"),
     low_risks |-> CountTier(l, "Low"), total_risks_assessed |-> Len(l)]

RiskList(final_questions_data, response_data) ==
    SortByScoreDesc(AcceptOrPlaceholders(final_questions_data,
                                         ParsedRisks(final_questions_data, response_data)))

perform_risk_assessment(final_questions_data, response_data) ==
    [risks |-> RiskList(final_questions_data, response_data),
     summary_stats |-> SummaryStats(RiskList(final_questions_data, response_data))]

\* ---- the Gateway responses Phase 4 is exercised with ----
\* What a model may score a question: <<probability, impact, risk_score, risk_tier>>.
\* The third is a model's arithmetic slip (4 * 4 is not 14).
ScorePool == { <<4, 5, 20, "High">>, <<3, 5, 15, "High">>,
               <<4, 4, 14, "Medium">>, <<1, 3, 3, "Low">> }
BorderPool == { <<3, 5, 15, "High">>, <<4, 4, 14, "Medium">>, <<1, 3, 3, "Low">> }
SmallPool == { <<4, 5, 20, "High">>, <<1, 3, 3, "Low">> }

LLMPlan == [present |-> TRUE,
            keys |-> {"research_strategies", "test_strategies", "act_strategies"},
            note |-> "plan written by the model"]

LLMRisk(k, n, sc, text, plan) ==
    Risk(n, text, "LLM category", sc[1], sc[2], sc[3], sc[4], "LLM justification", plan)

LLMText(k) == << "LLM question ", ToString(k) >>

\* plain: numbered by position, every key present, nothing extra;
\* dupnum: the third record repeats number 1; notext: no question_text keys;
\* withplan: the last record already carries a de_risking_plan key.
Variants == {"plain", "dupnum", "notext", "withplan"}

LLMRiskList(n, f, variant) ==
    [k \in 1..n |->
        LLMRisk(k,
                IF variant = "dupnum" /\ k = 3 THEN 1 ELSE k,
                f[k],
                IF variant = "notext" THEN AbsentText ELSE LLMText(k),
                IF variant = "withplan" /\ k = n THEN LLMPlan ELSE NoPlan)]

OtherLengths == {0, NumFinal - 1} \cup ((NumFinal + 1)..MaxRisks)

RiskLists ==
    {LLMRiskList(NumFinal, f, "plain") : f \in [1..NumFinal -> ScorePool]}
    \cup {LLMRiskList(NumFinal, f, v) :
             f \in [1..NumFinal -> BorderPool], v \in Variants \ {"plain"}}
    \cup UNION {{LLMRiskList(n, f, "plain") : f \in [1..n -> SmallPool]} : n \in OtherLengths}

Jsons4 ==
    {[type |-> "dict", keys |-> {"risk_assessments"}, islist |-> TRUE, value |-> l]
        : l \in RiskLists}
    \cup {[type |-> "dict", keys |-> {"risk_assessments"}, islist |-> FALSE, value |-> <<>>],
          [type |-> "dict", keys |-> {"risks"}, islist |-> TRUE, value |-> <<>>]}

Responses4 ==
    {JsonResponse("failure", <<>>, NoneJson4), JsonResponse("nochoices", <<>>, NoneJson4),
     JsonResponse("null", <<>>, NoneJson4)}
    \cup {JsonResponse("ok", << FENCE, LANG, NL, JTEXT, NL, FENCE >>, j) : j \in Jsons4}
    \cup {JsonResponse("ok", c, j) :
            c \in Layouts,
            j \in {[type |-> "dict", keys |-> {"risk_assessments"}, islist |-> TRUE,
                    value |-> LLMRiskList(NumFinal, [k \in 1..NumFinal |-> <<4, 5, 20, "High">>],
                                          "plain")]}}

GenuineFinal == [k \in 1..NumFinal |-> LLMQuestion(k, k)]

\* json.dump of a list of risk records: an array of objects, each with the
\* keys the record holds
RiskListJson(l) ==
    [t |-> "array",
     v |-> [i \in 1..Len(l) |->
              [t |-> "object",
               v |-> [key \in {"question_number", "risk_category", "probability", "impact",
                               "risk_score", "risk_tier", "justification"}
                               \cup (IF l[i].question_text # AbsentText
                                     THEN {"question_text"} ELSE {})
                               \cup (IF l[i].de_risking_plan.present
                                     THEN {"de_risking_plan"} ELSE {})
                          |-> l[i][key]]]]]

(***************************************************************************)
(* run_risk_assessment.py: the stand-alone Phase 4 script.  It reads       *)
(* final_questions.json, builds its prompt from q['question_number'],      *)
(* q['question'] and q['reasoning'], makes one call, parses the answer     *)
(* with its own extract_risk_assessment and writes what that returned.     *)
(***************************************************************************)
\* extract_risk_assessment, lines 139-157: a leading fence with or without the
\* tag and a trailing fence are cut off, the rest is handed to json.loads
ScriptStripFences(content) ==
    LET s0 == stripws(content)
        s1 == IF Len(s0) >= 2 /\ s0[1] = FENCE /\ s0[2] = LANG
              THEN SubSeq(s0, 3, Len(s0)) ELSE s0
        s2 == IF Len(s1) >= 1 /\ s1[1] = FENCE THEN SubSeq(s1, 2, Len(s1)) ELSE s1
    IN  IF Len(s2) >= 1 /\ s2[Len(s2)] = FENCE THEN SubSeq(s2, 1, Len(s2) - 1) ELSE s2

\* [returned, raised]: None for a response without choices or a text that is
\* not JSON; content.strip() raises on a content that is None
extract_risk_assessment(response) ==
    IF ~HasChoices(response) THEN [returned |-> NoneJson4, raised |-> FALSE]
    ELSE IF ContentIsNone(response) THEN [returned |-> NoneJson4, raised |-> TRUE]
    ELSE [returned |-> JsonLoads(ScriptStripFences(response.content), response.json, NoneJson4),
          raised |-> FALSE]

\* json.dump(risk_assessment, f): the parsed value as it is
ScriptJson(risk_assessment) ==
    IF risk_assessment.type = "list" THEN RiskListJson(risk_assessment.value)
    ELSE [t |-> "object",
          v |-> [key \in risk_assessment.keys |->
                    IF risk_assessment.islist THEN RiskListJson(risk_assessment.value)
                    ELSE [t |-> "null", v |-> <<>>]]]

\* what the model answers: the wrapped form the prompt of the script asks for
\* (lines 103-118), a bare list, an object without records
WrappedRisks == [type |-> "dict", keys |-> {"risks"}, islist |-> TRUE,
                 value |-> LLMRiskList(NumFinal, [k \in 1..NumFinal |-> <<4, 5, 20, "High">>],
                                       "plain")]
BareRisks == [WrappedRisks EXCEPT !.type = "list", !.keys = {}]

ScriptResponses ==
    {JsonResponse("failure", <<>>, NoneJson4), JsonResponse("null", <<>>, NoneJson4)}
    \cup {JsonResponse("ok", c, j) :
            c \in {<< JTEXT >>, << FENCE, LANG, NL, JTEXT, NL, FENCE >>,
                   << FENCE, NL, JTEXT, NL, FENCE >>, << JTEXT, NL, PROSE >>},
            j \in {WrappedRisks, BareRisks,
                   [type |-> "dict", keys |-> {}, islist |-> FALSE, value |-> <<>>]}}

\* what response4 holds when the script made no call
NoCall == JsonResponse("nocall", <<>>, NoneJson4)

\* main and perform_risk_assessment of the script, run where no
\* risk_assessment.json exists or over the one a Phase 4 run wrote.
\* has_question: the records of final_questions.json carry the key 'question'
\* the prompt reads; without it create_risk_assessment_prompt raises KeyError
\* before any call.
RiskScript ==
    /\ pc45 \in {"idle", "assessed"}
    /\ pcr = "idle"
    /\ \E has_question \in BOOLEAN, response \in ScriptResponses :
          LET got == extract_risk_assessment(response)
              writes == has_question /\ response.kind # "failure" /\ ~got.raised
                        /\ Truthy(got.returned)
          IN  /\ response4' = IF has_question THEN response ELSE NoCall
              /\ pcr' = IF ~has_question \/ (response.kind # "failure" /\ got.raised)
                        THEN "raised" ELSE "returned"
              /\ risk_json' = IF writes THEN ScriptJson(got.returned) ELSE risk_json
              /\ risk_doc' = IF writes THEN [exists |-> TRUE, data |-> got.returned.value]
                             ELSE risk_doc
    /\ pc45' = "scripted"
    /\ UNCHANGED <<final_in, bundle, given5, responses5, derisked, derisk_doc, calls5,
                   caller45>>

\* perform_risk_assessment called by main_cli or by the Phase 4 handler of
\* app.py; the function writes the list (lines 461-462) and the handler saves
\* the 'risks' of what it returned once more (app.py line 401).
P4Call ==
    /\ pc45 = "idle"
    /\ pcr = "idle"
    /\ \E response_data \in Responses4 :
          /\ response4' = response_data
          /\ bundle' = perform_risk_assessment(final_in, response_data)
          /\ risk_doc' = [exists |-> TRUE,
                          data |-> perform_risk_assessment(final_in, response_data).risks]
          /\ risk_json' = RiskListJson(perform_risk_assessment(final_in, response_data).risks)
    /\ \E caller \in {"cli", "app"} : caller45' = caller
    /\ pc45' = "assessed"
    /\ UNCHANGED <<final_in, given5, responses5, derisked, derisk_doc, calls5, pcr>>

(***************************************************************************)
(* Phase 5: develop_derisking_strategies                                   *)
(***************************************************************************)
HighPriorityScore == 15
MaxHighPriority == 3

StatusNoHigh ==
    [present |-> TRUE, keys |-> {"status"},
     note |-> "Not high priority for strategy generation"]
StatusThisRun ==
    [present |-> TRUE, keys |-> {"status"},
     note |-> "Not high priority for strategy generation this run"]
ErrorNoResponse ==
    [present |-> TRUE, keys |-> {"error"}, note |-> "No LLM response for strategies."]
ErrorParse ==
    [present |-> TRUE, keys |-> {"error", "raw_response_snippet"},
     note |-> "Failed to parse strategies from LLM."]

IsHighScore(r) == r.risk_score >= HighPriorityScore

\* [r for r in risk_assessment_list if r.get("risk_score", 0) >= 15][:3]
high_priority_risks(risk_assessment_list) ==
    LET scoring == SelectSeq(risk_assessment_list, IsHighScore)
    IN  SubSeq(scoring, 1, IF Len(scoring) < MaxHighPriority THEN Len(scoring)
                           ELSE MaxHighPriority)

\* any(hp_risk.get("question_number") == risk_item_dict.get("question_number") ...)
is_high_priority(risk_item_dict, high) ==
    \E k \in 1..Len(high) : high[k].question_number = risk_item_dict.question_number

\* positions of the records the loop issues a Gateway call for, in loop order
CallPositions(risk_assessment_list) ==
    LET high == high_priority_risks(risk_assessment_list)
        hits == {i \in 1..Len(risk_assessment_list) :
                    is_high_priority(risk_assessment_list[i], high)}
    IN  [k \in 1..Cardinality(hits) |->
            CHOOSE i \in hits : Cardinality({j \in hits : j < i}) = k - 1]

NoneJson5 == [type |-> "none", keys |-> {}, islist |-> FALSE, value |-> NoPlan]

PlanFrom(response_data) ==
    IF HasChoices(response_data)
    THEN LET parsed_json == parse_json_from_llm_response(response_data.content,
                                                         response_data.json, NoneJson5)
         IN  IF Truthy(parsed_json) /\ "de_risking_plan" \in parsed_json.keys
             THEN parsed_json.value
             ELSE ErrorParse
    ELSE ErrorNoResponse

\* leaves a record that is not selected without any plan
MarkUnlessPlanned_Skip(r_item, marker) == r_item

MarkUnlessPlanned(r_item, marker) ==
    IF ~r_item.de_risking_plan.present
    THEN [r_item EXCEPT !.de_risking_plan = marker]
    ELSE r_item

\* The loop over updated_risks_with_strategies; outs[k] answers the k-th call.
WithStrategies(risk_assessment_list, outs) ==
    LET calls == CallPositions(risk_assessment_list)
    IN  [i \in 1..Len(risk_assessment_list) |->
            IF \E k \in 1..Len(calls) : calls[k] = i
            THEN [risk_assessment_list[i] EXCEPT !.de_risking_plan =
                     PlanFrom(outs[CHOOSE k \in 1..Len(calls) : calls[k] = i])]
            ELSE MarkUnlessPlanned(risk_assessment_list[i], StatusThisRun)]

\* content[:200] of line 601 on a content that is None: TypeError
RaisesOnSnippet(response_data) ==
    /\ HasChoices(response_data)
    /\ ContentIsNone(response_data)

\* the calls that are made up to the first one whose handling raises
Answered(outs) ==
    LET raising == {k \in 1..Len(outs) : RaisesOnSnippet(outs[k])}
    IN  IF raising = {} THEN Len(outs) ELSE SetMin(raising)

\* develop_derisking_strategies: what it returns, what it leaves in the list
\* it was given, whether it wrote the report document, the calls it issued,
\* whether it raised instead of returning.
develop_derisking_strategies(risk_assessment_list, outs) ==
    IF high_priority_risks(risk_assessment_list) = <<>>
    THEN LET marked == [i \in 1..Len(risk_assessment_list) |->
                           MarkUnlessPlanned(risk_assessment_list[i], StatusNoHigh)]
         IN  [returned |-> marked, input_after |-> marked, wrote |-> FALSE,
              calls |-> <<>>, raised |-> FALSE]
    ELSE IF \E k \in 1..Len(outs) : RaisesOnSnippet(outs[k])
    THEN [returned |-> <<>>,
          input_after |-> risk_assessment_list,
          wrote |-> FALSE,
          calls |-> SubSeq(CallPositions(risk_assessment_list), 1, Answered(outs)),
          raised |-> TRUE]
    ELSE [returned |-> WithStrategies(risk_assessment_list, outs),
          input_after |-> risk_assessment_list,
          wrote |-> TRUE,
          calls |-> CallPositions(risk_assessment_list),
          raised |-> FALSE]

GeneratedPlan ==
    [present |-> TRUE,
     keys |-> {"research_strategies", "test_strategies", "act_strategies"},
     note |-> "plan generated for this risk"]

Responses5 ==
    { JsonResponse("failure", <<>>, NoneJson5),
      JsonResponse("null", <<>>, NoneJson5),
      JsonResponse("ok", << FENCE, LANG, NL, JTEXT, NL, FENCE >>,
                   [type |-> "dict", keys |-> {"de_risking_plan"}, islist |-> FALSE,
                    value |-> GeneratedPlan]),
      JsonResponse("ok", << JTEXT >>,
                   [type |-> "dict", keys |-> {"strategies"}, islist |-> FALSE,
                    value |-> GeneratedPlan]) }

\* drops what the function returned, as main_cli does
HandlerSaves5_Never(caller, got) == FALSE

\* the Phase 5 handler of app.py saves what the function returned (line 477);
\* main_cli keeps it in a local and saves nothing (lines 1052-1057)
HandlerSaves5(caller, got) == caller = "app" /\ ~got.raised

\* develop_derisking_strategies called by whoever ran Phase 4
P5Call ==
    /\ pc45 = "assessed"
    /\ \E outs \in [1..Len(CallPositions(bundle.risks)) -> Responses5] :
          LET got == develop_derisking_strategies(bundle.risks, outs)
          IN  /\ given5' = bundle.risks
              /\ responses5' = SubSeq(outs, 1, Len(got.calls))
              /\ derisked' = got.returned
              /\ bundle' = [bundle EXCEPT !.risks = got.input_after]
              /\ derisk_doc' = IF got.wrote \/ HandlerSaves5(caller45, got)
                               THEN [exists |-> TRUE, data |-> got.returned]
                               ELSE derisk_doc
              /\ calls5' = got.calls
              /\ pc45' = IF got.raised THEN "raised" ELSE "derisked"
    /\ UNCHANGED <<final_in, response4, risk_doc, risk_json, caller45, pcr>>

InitP45 ==
    /\ pc45 = "idle"
    /\ final_in = GenuineFinal
    /\ response4 = JsonResponse("failure", <<>>, NoneJson4)
    /\ bundle = [risks |-> <<>>, summary_stats |-> SummaryStats(<<>>)]
    /\ risk_doc = NoDoc
    /\ given5 = <<>>
    /\ responses5 = <<>>
    /\ derisked = <<>>
    /\ derisk_doc = NoDoc
    /\ calls5 = <<>>
    /\ risk_json = [t |-> "null", v |-> <<>>]
    /\ caller45 = "none"
    /\ pcr = "idle"

NextP45 == P4Call \/ P5Call \/ RiskScript

(***************************************************************************)
(* Phase 6: perform_strategic_reflection, and its two callers.             *)
(***************************************************************************)
ReflectionKeys == {"i_like_reflection", "i_wish_reflection", "i_wonder_reflection"}

NoneJson6 == [type |-> "none", keys |-> {}, islist |-> FALSE, value |-> <<>>]

\* The reflection object an LLM answers with: any subset of the three keys,
\* possibly with a key of its own besides
Reflection(keys) == [type |-> "dict", keys |-> keys, islist |-> FALSE, value |-> <<>>]

Jsons6 ==
    {Reflection(keys) : keys \in SUBSET ReflectionKeys}
    \cup {Reflection(ReflectionKeys \cup {"summary"})}

Responses6 ==
    {JsonResponse("failure", <<>>, NoneJson6),
     JsonResponse("nochoices", <<>>, NoneJson6),
     JsonResponse("null", <<>>, NoneJson6)}
    \cup {JsonResponse("ok", c, j) : c \in Layouts, j \in Jsons6}

\* strategic_reflection.json as an earlier run left it
EarlierReflection == [exists |-> TRUE, data |-> Reflection(ReflectionKeys \cup {"earlier"})]

Docs6 == {NoDoc, EarlierReflection}

\* parsed_json and "i_like_reflection" in parsed_json and ... (line 899)
HasAllKeys(parsed_json) ==
    Truthy(parsed_json) /\ ReflectionKeys \subseteq parsed_json.keys

\* perform_strategic_reflection from the Gateway call on: what it returns,
\* whether it writes strategic_reflection.json, whether it raises instead of
\* returning (content[:500] on a content that is None, line 909)
perform_strategic_reflection(response_data) ==
    IF ~HasChoices(response_data)
    THEN [returned |-> NoneJson6, wrote |-> FALSE, raised |-> FALSE]
    ELSE LET content == response_data.content
             parsed_json ==
                 IF ContentIsNone(response_data) THEN NoneJson6
                 ELSE parse_json_from_llm_response(content, response_data.json, NoneJson6)
         IN  IF HasAllKeys(parsed_json)
             THEN [returned |-> parsed_json, wrote |-> Truthy(parsed_json), raised |-> FALSE]
             ELSE [returned |-> NoneJson6, wrote |-> FALSE,
                   raised |-> ContentIsNone(response_data)]

\* main_cli calls the function and drops what it returns.
P6Cli ==
    /\ pc6 = "idle"
    /\ \E response_data \in Responses6 :
        LET got == perform_strategic_reflection(response_data)
        IN  /\ response6' = response_data
            /\ caller6' = "cli"
            /\ pc6' = IF got.raised THEN "raised" ELSE "returned"
            /\ reflection' = got.returned
            /\ reflection_doc' = IF got.wrote THEN [exists |-> TRUE, data |-> got.returned]
                                 ELSE reflection_doc
            /\ writes6' = IF got.wrote THEN 1 ELSE 0
            /\ UNCHANGED doc6_before

\* The Phase 6 handler of app.py: the call, then save_state_to_file of what the
\* session holds, both inside one try; an exception skips the save.
P6App ==
    /\ pc6 = "idle"
    /\ \E response_data \in Responses6 :
        LET got == perform_strategic_reflection(response_data)
        IN  /\ response6' = response_data
            /\ caller6' = "app"
            /\ pc6' = IF got.raised THEN "raised" ELSE "returned"
            /\ reflection' = got.returned
            /\ reflection_doc' = IF got.raised THEN reflection_doc
                                 ELSE [exists |-> TRUE, data |-> got.returned]
            /\ writes6' = IF got.raised THEN 0
                          ELSE IF got.wrote THEN 2 ELSE 1
            /\ UNCHANGED doc6_before

InitP6With(doc) ==
    /\ pc6 = "idle"
    /\ caller6 = "none"
    /\ response6 = JsonResponse("failure", <<>>, NoneJson6)
    /\ reflection = NoneJson6
    /\ reflection_doc = doc
    /\ doc6_before = doc
    /\ writes6 = 0

InitP6 == InitP6With(NoDoc)

NextP6 == P6Cli \/ P6App

(***************************************************************************)
(* parse_json_from_llm_response on its own: every way of laying a JSON     *)
(* document out in a response, for every kind of JSON value.               *)
(***************************************************************************)
\* What may stand before the document: nothing, a tagged fence, a fence
\* without tag; each with or without white space after it
Openers ==
    { << >>,
      << FENCE, LANG, NL >>, << FENCE, LANG, " " >>, << FENCE, LANG >>,
      << FENCE, NL >>, << FENCE >> }

\* the matching closers
Closer(opener) ==
    IF opener = << >> THEN << >>
    ELSE IF opener[Len(opener)] \in JsonWhitespace THEN << opener[Len(opener)], FENCE >>
    ELSE << FENCE >>

Tagged(opener) == Len(opener) >= 2 /\ opener[2] = LANG
Fenced(opener) == opener # << >>

Leads == { << >>, << PROSE, NL >> }
Trails == { << >>, << NL, PROSE >>, << NL >> }

Wrapped(lead, opener, trail) == lead \o opener \o << JTEXT >> \o Closer(opener) \o trail

JsonValues ==
    { [type |-> "dict", keys |-> {"final_questions"}, islist |-> TRUE, value |-> <<>>],
      [type |-> "dict", keys |-> {}, islist |-> FALSE, value |-> <<>>],
      [type |-> "list", keys |-> {}, islist |-> TRUE, value |-> <<>>],
      [type |-> "number", keys |-> {}, islist |-> FALSE, value |-> <<>>],
      [type |-> "string", keys |-> {}, islist |-> FALSE, value |-> <<>>] }

ParseCall ==
    /\ pcj = "idle"
    /\ parsed_j' = parse_json_from_llm_response(
                       Wrapped(lead_j, opener_j, trail_j), denoted_j, NoneJson6)
    /\ pcj' = "parsed"
    /\ UNCHANGED <<lead_j, opener_j, trail_j, denoted_j>>

InitJWith(lead, opener, trail, denoted) ==
    /\ pcj = "idle"
    /\ lead_j = lead
    /\ opener_j = opener
    /\ trail_j = trail
    /\ denoted_j = denoted
    /\ parsed_j = NoneJson6

InitJ == InitJWith(<< >>, << >>, << >>, NoneJson6)

NextParse == ParseCall

(***************************************************************************)
(* call_openrouter_api.  What requests.post does is an input: it raises    *)
(* (no connection, no answer within the timeout), or gives a response with *)
(* a status code and a body.  The exception classes are those of requests  *)
(* 2.27 and later, where the JSONDecodeError of response.json() is a        *)
(* RequestException.                                                       *)
(***************************************************************************)
HIGH_REASONING_MODEL == "anthropic/claude-3.7-sonnet:thinking"

\* the models a call is made for, and two that line 118 is written for
GatewayModels ==
    {LLM_MODELS_FULL[i] : i \in 1..Len(LLM_MODELS_FULL)}
    \cup {HIGH_REASONING_MODEL, "openai/gpt-4o", "anthropic/claude-3-sonnet-20240229"}

\* "gpt" in model or "claude-3.5" in model or "claude-3-" in model
SupportsJsonObject(model) ==
    model \in {"openai/gpt-4o", "anthropic/claude-3-sonnet-20240229"}

Payload(model, is_json_output) ==
    [model |-> model,
     response_format |-> IF is_json_output /\ SupportsJsonObject(model)
                         THEN "json_object" ELSE "unset"]

StatusCodes == {200, 201, 400, 401, 402, 429, 500, 502}

\* a body that is not a JSON document (an HTML page, a cut-off answer)
NotJson == [kind |-> "notjson", content |-> <<>>]

Bodies == {NotJson, NoChoices, NullContent, OkResponse(PlainContent(1))}

Posts ==
    {[raises |-> e, status_code |-> 0, body |-> NotJson] : e \in {"ConnectionError", "Timeout"}}
    \cup {[raises |-> "nothing", status_code |-> c, body |-> b] : c \in StatusCodes, b \in Bodies}

\* response.raise_for_status()
RaisesForStatus(status_code) == status_code >= 400 /\ status_code < 600

\* the exception the try block ends with, or "nothing"
RaisedInTry(post) ==
    IF post.raises # "nothing" THEN post.raises
    ELSE IF RaisesForStatus(post.status_code) THEN "HTTPError"
    ELSE IF post.body = NotJson THEN "JSONDecodeError"
    ELSE "nothing"

\* except requests.exceptions.RequestException
IsRequestException_Transport(exc) == exc \in {"ConnectionError", "Timeout", "HTTPError"}

IsRequestException(exc) ==
    exc \in {"ConnectionError", "Timeout", "HTTPError", "JSONDecodeError"}

\* call_openrouter_api from the request on: [returned, raised]; None is Failure
call_openrouter_api(post) ==
    LET exc == RaisedInTry(post)
    IN  IF exc = "nothing" THEN [returned |-> post.body, raised |-> FALSE]
        ELSE IF IsRequestException(exc) THEN [returned |-> Failure, raised |-> FALSE]
        ELSE [returned |-> Failure, raised |-> TRUE]

GatewayCall ==
    /\ pcg = "idle"
    /\ payload_g' = Payload(model_g, json_g)
    /\ LET got == call_openrouter_api(post_g)
       IN  /\ pcg' = IF got.raised THEN "raised" ELSE "returned"
           /\ result_g' = got.returned
    /\ UNCHANGED <<model_g, json_g, post_g>>

InitGWith(model, is_json_output, post) ==
    /\ pcg = "idle"
    /\ model_g = model
    /\ json_g = is_json_output
    /\ post_g = post
    /\ payload_g = Payload(model, FALSE)
    /\ result_g = Failure

InitG == InitGWith(HIGH_REASONING_MODEL, TRUE, [raises |-> "Timeout", status_code |-> 0, body |-> NotJson])

NextGateway == GatewayCall

(***************************************************************************)
(* A front-end session that starts with extracted inputs and runs the      *)
(* phase handlers of app.py on the phase functions themselves.  Each       *)
(* Gateway call fails or answers with a text.  pipe[k] is the session      *)
(* value of phase k: [present, value].                                     *)
(***************************************************************************)
PipePhases == 2..6

Absent == [present |-> FALSE, value |-> <<>>]
Present(v) == [present |-> TRUE, value |-> v]

\* generate_pms_questions as a whole; rs[i] answers the call for model i
generate_pms_questions(rs) ==
    [model \in {models_to_use[i] : i \in 1..Len(models_to_use)} |->
        ModelEntry(model, rs[CHOOSE i \in 1..Len(models_to_use) : models_to_use[i] = model])]

PipeResponses2 ==
    {Failure, NoChoices, OkResponse(<<>>), OkResponse(PlainContent(RequiredCount))}

PipeResponses3 ==
    {JsonResponse("failure", <<>>, NoneJson3),
     JsonResponse("ok", << PROSE >>, NoneJson3),
     JsonResponse("ok", << JTEXT >>,
                  [type |-> "dict", keys |-> {"final_questions"}, islist |-> TRUE,
                   value |-> GenuineFinal])}

PipeResponses4 ==
    {JsonResponse("failure", <<>>, NoneJson4),
     JsonResponse("ok", << JTEXT >>,
                  [type |-> "dict", keys |-> {"risk_assessments"}, islist |-> TRUE,
                   value |-> LLMRiskList(NumFinal, [k \in 1..NumFinal |-> <<4, 5, 20, "High">>],
                                         "plain")]),
     JsonResponse("ok", << JTEXT >>,
                  [type |-> "dict", keys |-> {"risk_assessments"}, islist |-> TRUE,
                   value |-> LLMRiskList(NumFinal - 1,
                                         [k \in 1..(NumFinal - 1) |-> <<4, 5, 20, "High">>],
                                         "plain")])}

PipeResponses5 == {r \in Responses5 : ~ContentIsNone(r)}

PipeResponses6 ==
    {JsonResponse("failure", <<>>, NoneJson6),
     JsonResponse("ok", << JTEXT >>, Reflection(ReflectionKeys)),
     JsonResponse("ok", << JTEXT >>, Reflection({"i_like_reflection"}))}

IsFailure(response_data) == response_data.kind = "failure"

\* the button of phase k is shown and enabled (lines 312-314, 353-355, ...)
PipeButton(k) ==
    /\ ~pipe[k].present
    /\ k > 2 => pipe[k - 1].present

Pipe2 ==
    /\ PipeButton(2)
    /\ \E rs \in [1..Len(models_to_use) -> PipeResponses2] :
          /\ pipe' = [pipe EXCEPT ![2] = Present(generate_pms_questions(rs))]
          /\ pipe_failed' = (pipe_failed /\ \A i \in 1..Len(rs) : IsFailure(rs[i]))
    /\ pipe_ran' = pipe_ran \cup {2}

Pipe3 ==
    /\ PipeButton(3)
    /\ \E response_data \in PipeResponses3 :
          /\ pipe' = [pipe EXCEPT ![3] = Present(consolidate_questions(response_data))]
          /\ pipe_failed' = (pipe_failed /\ IsFailure(response_data))
    /\ pipe_ran' = pipe_ran \cup {3}

Pipe4 ==
    /\ PipeButton(4)
    /\ \E response_data \in PipeResponses4 :
          /\ pipe' = [pipe EXCEPT ![4] =
                         Present(perform_risk_assessment(pipe[3].value, response_data))]
          /\ pipe_failed' = (pipe_failed /\ IsFailure(response_data))
    /\ pipe_ran' = pipe_ran \cup {4}

\* The handler hands st.session_state.risk_assessment['risks'] itself to the
\* function; an exception leaves the session value None.
Pipe5 ==
    /\ PipeButton(5)
    /\ \E outs \in [1..Len(CallPositions(pipe[4].value.risks)) -> PipeResponses5] :
          LET got == develop_derisking_strategies(pipe[4].value.risks, outs)
          IN  /\ pipe' = [pipe EXCEPT
                            ![5] = IF got.raised THEN Absent ELSE Present(got.returned),
                            ![4] = Present([pipe[4].value EXCEPT !.risks = got.input_after])]
              /\ pipe_failed' = (pipe_failed /\ \A k \in 1..Len(outs) : IsFailure(outs[k]))
    /\ pipe_ran' = pipe_ran \cup {5}

Pipe6 ==
    /\ PipeButton(6)
    /\ \E response_data \in PipeResponses6 :
          LET got == perform_strategic_reflection(response_data)
          IN  /\ pipe' = [pipe EXCEPT
                            ![6] = IF got.raised \/ got.returned = NoneJson6 THEN Absent
                                   ELSE Present(got.returned)]
              /\ pipe_failed' = (pipe_failed /\ IsFailure(response_data))
    /\ pipe_ran' = pipe_ran \cup {6}

InitPipe ==
    /\ pipe = [k \in PipePhases |-> Absent]
    /\ pipe_ran = {}
    /\ pipe_failed = TRUE

NextPipe == Pipe2 \/ Pipe3 \/ Pipe4 \/ Pipe5 \/ Pipe6

(***************************************************************************)
(* The front-end app.py and the CLI driver main_cli.                       *)
(*                                                                         *)
(* An artifact is [kind, id, from]: id tells the artifacts of one phase     *)
(* apart, from is the id of the artifact of the phase before that the      *)
(* phase function was given.  The artifacts an earlier use left in the     *)
(* store have id 0.  A session key that was never assigned reads as None.  *)
(* The steps of the main area are those of a script run in which the       *)
(* context text is not empty and no phase is being processed.              *)
(***************************************************************************)
Phases == 1..6

None == [kind |-> "None", id |-> 0, from |-> 0]
NoFile == [kind |-> "no file", id |-> 0, from |-> 0]
NullDoc == [kind |-> "null", id |-> 0, from |-> 0]
Artifact(id, from) == [kind |-> "artifact", id |-> id, from |-> from]
AllNone == [j \in Phases |-> None]

\* The ids in use for phase k: those of its artifacts held anywhere, and those
\* the artifacts of phase k+1 held anywhere were derived from.
Holders == <<session, files, cli, before>>
Live(k) ==
    {Holders[h][k].id : h \in 1..4}
    \cup (IF k < 6 THEN {Holders[h][k + 1].from : h \in 1..4} ELSE {})

\* the id of the artifact a run of phase k produces: the least one not in use
FreshId(k) ==
    CHOOSE n \in 1..(Cardinality(Live(k)) + 1) :
        n \notin Live(k) /\ \A m \in 1..(n - 1) : m \in Live(k)

NoInv == [phase |-> 0, by |-> "nobody", present |-> {}]
Invocation(k, by, held) ==
    [phase |-> k, by |-> by, present |-> {j \in Phases : held[j] # None}]

PhaseName(j) ==
    CASE j = 1 -> "phase1" [] j = 2 -> "phase2" [] j = 3 -> "phase3"
      [] j = 4 -> "phase4" [] j = 5 -> "phase5" [] j = 6 -> "phase6"

\* the phases the reset buttons request
ResetPhases == {"all"} \cup {PhaseName(j) : j \in 2..6}

PhaseIndex(phase) ==
    IF phase = "all" THEN 1 ELSE CHOOSE j \in Phases : PhaseName(j) = phase

\* clears the artifact of phase j only for resets of earlier phases
ClearList_After(j) == {"all"} \cup {PhaseName(i) : i \in 1..(j - 1)}

\* the list the block of artifact j tests reset_phase against
ClearList(j) == {"all"} \cup {PhaseName(i) : i \in 1..j}

exists(f) == f.kind # "no file"

\* json.load of a document; load_state_from_file
load_state_from_file(f) == IF f.kind = "artifact" THEN f ELSE None

\* one "if key not in st.session_state or reset_trigger" block
InitOrReset(j, current, phase, store) ==
    IF phase \in ClearList(j) THEN None
    ELSE IF exists(store[j]) /\ current = None THEN load_state_from_file(store[j])
    ELSE current

\* reset_state(phase): sets the request and ends the script run with st.rerun()
reset_state(phase) ==
    /\ ~reset_trigger
    /\ pc_cli = "off"
    /\ reset_trigger' = TRUE
    /\ reset_phase' = phase
    /\ before' = session
    /\ just_reset' = 0
    /\ inv' = NoInv
    /\ UNCHANGED <<session, files, made, cli, pc_cli>>

ResetClick == \E phase \in ResetPhases : reset_state(phase)

\* the script run that follows: the initialisation blocks, then the trigger
\* is cleared
ScriptRerun ==
    /\ reset_trigger
    /\ session' = [j \in Phases |-> InitOrReset(j, session[j], reset_phase, files)]
    /\ reset_trigger' = FALSE
    /\ reset_phase' = "None"
    /\ just_reset' = PhaseIndex(reset_phase)
    /\ UNCHANGED <<files, made, before, inv, cli, pc_cli>>

\* what every other step of the front-end leaves in the history variables
Settled ==
    /\ ~reset_trigger
    /\ pc_cli = "off"
    /\ before' = AllNone
    /\ just_reset' = 0
    /\ UNCHANGED <<reset_trigger, reset_phase, cli, pc_cli>>

\* a new browser session: every key is missing and initialised from the store
NewSession ==
    /\ Settled
    /\ session' = [j \in Phases |-> InitOrReset(j, None, "None", files)]
    /\ inv' = NoInv
    /\ UNCHANGED <<files, made>>

LoadDemoData ==
    /\ Settled
    /\ \E j \in Phases : exists(files[j])
    /\ session' = [j \in Phases |->
          IF j = 4
          THEN IF exists(files[4]) /\ load_state_from_file(files[4]) # None
               THEN load_state_from_file(files[4])
               ELSE session[4]
          ELSE IF exists(files[j]) THEN load_state_from_file(files[j]) ELSE None]
    /\ inv' = NoInv
    /\ UNCHANGED <<files, made>>

\* the artifact whose presence shows the Load Saved button of phase j
\* offers every Load Saved button once the inputs are present
LoadGate_Inputs(j) == 1

LoadGate(j) == IF j = 1 THEN 1 ELSE j - 1

LoadSaved(j) ==
    /\ Settled
    /\ session[LoadGate(j)] # None
    /\ exists(files[j])
    /\ load_state_from_file(files[j]) # None
    /\ session' = [session EXCEPT ![j] = load_state_from_file(files[j])]
    /\ inv' = NoInv
    /\ UNCHANGED <<files, made>>

LoadSavedClick == \E j \in Phases : LoadSaved(j)

\* "Process Inputs", when the three input documents can be read
ProcessInputs ==
    /\ Settled
    /\ session[1] = None
    /\ made < MaxRuns
    /\ made' = made + 1
    /\ session' = [session EXCEPT ![1] = Artifact(FreshId(1), 0)]
    /\ files' = [files EXCEPT ![1] = Artifact(FreshId(1), 0)]
    /\ inv' = NoInv

\* shows every phase button whatever the session holds
ButtonEnabled_Always(k) == TRUE

\* disabled = processing_phase is not None or <artifact of phase k-1> is None
ButtonEnabled(k) == session[k - 1] # None

\* The handlers of the phase buttons 2..6.  Phases 5 and 6 read
\* extracted_data["context"] while building the arguments, and phases 3 and 4
\* read it inside the phase function: without a Phase 1 artifact both raise,
\* the handler reports the error and the session and the store stay as they
\* were.  ok is whether Phase 6 obtained a reflection.
RunPhase(k, ok) ==
    /\ Settled
    /\ session[k] = None
    /\ ButtonEnabled(k)
    /\ IF session[1] = None
       THEN /\ inv' = IF k \in {3, 4} THEN Invocation(k, "app", session) ELSE NoInv
            /\ UNCHANGED <<session, files, made>>
       ELSE /\ inv' = Invocation(k, "app", session)
            /\ IF k = 6 /\ ~ok
               THEN /\ session' = [session EXCEPT ![k] = None]
                    /\ files' = [files EXCEPT ![k] = NullDoc]
                    /\ UNCHANGED made
               ELSE /\ made < MaxRuns
                    /\ made' = made + 1
                    /\ session' = [session EXCEPT ![k] =
                                       Artifact(FreshId(k), session[k - 1].id)]
                    /\ files' = [files EXCEPT ![k] =
                                     Artifact(FreshId(k), session[k - 1].id)]

PhaseClick == \E k \in 2..6, ok \in BOOLEAN : (ok \/ k = 6) /\ RunPhase(k, ok)

(***************************************************************************)
(* main_cli: Phase 1 is always prepared and written; each later phase is   *)
(* run, loaded from its document, or skipped, as the caller answers.  The  *)
(* caller runs the driver between two script runs of the front-end; its    *)
(* locals are gone when it returns.                                        *)
(***************************************************************************)
CliPc(k) == PhaseName(k)

\* "if not <artifact>: ... return" after phases 2, 3 and 4
CliNext(k, got) ==
    IF k = 6 THEN "off"
    ELSE IF k \in 2..4 /\ got = None THEN "off"
    ELSE CliPc(k + 1)

CliStart ==
    /\ ~reset_trigger
    /\ pc_cli = "off"
    /\ made < MaxRuns
    /\ made' = made + 1
    /\ cli' = [AllNone EXCEPT ![1] = Artifact(FreshId(1), 0)]
    /\ files' = [files EXCEPT ![1] = Artifact(FreshId(1), 0)]
    /\ pc_cli' = CliPc(2)
    /\ inv' = NoInv
    /\ before' = AllNone
    /\ just_reset' = 0
    /\ UNCHANGED <<session, reset_trigger, reset_phase>>

CliFrame ==
    /\ before' = AllNone
    /\ just_reset' = 0
    /\ UNCHANGED <<session, reset_trigger, reset_phase>>

\* answer y to "Run Phase k?".  Phase 5 writes its report only on the path
\* with a high-priority risk (wrote); Phase 6 returns None and writes nothing
\* without a reflection, and its result is not kept.
CliRun(k, wrote) ==
    /\ pc_cli = CliPc(k)
    /\ inv' = Invocation(k, "cli", cli)
    /\ IF k = 6
       THEN /\ cli' = AllNone
            /\ IF wrote
               THEN /\ made < MaxRuns
                    /\ made' = made + 1
                    /\ files' = [files EXCEPT ![6] = Artifact(FreshId(6), cli[5].id)]
               ELSE UNCHANGED <<made, files>>
       ELSE /\ made < MaxRuns
            /\ made' = made + 1
            /\ cli' = [cli EXCEPT ![k] = Artifact(FreshId(k), cli[k - 1].id)]
            /\ files' = IF k = 5 /\ ~wrote THEN files
                        ELSE [files EXCEPT ![k] = Artifact(FreshId(k), cli[k - 1].id)]
    /\ pc_cli' = CliNext(k, Artifact(1, 0))
    /\ CliFrame

\* answer n, then y to "Load existing <document>?" (phases 2..5)
CliLoad(k) ==
    /\ pc_cli = CliPc(k)
    /\ k \in 2..5
    /\ exists(files[k])
    /\ pc_cli' = CliNext(k, load_state_from_file(files[k]))
    /\ cli' = IF pc_cli' = "off" THEN AllNone
              ELSE [cli EXCEPT ![k] = load_state_from_file(files[k])]
    /\ inv' = NoInv
    /\ CliFrame
    /\ UNCHANGED <<made, files>>

\* answer n to both
CliSkip(k) ==
    /\ pc_cli = CliPc(k)
    /\ pc_cli' = CliNext(k, None)
    /\ cli' = IF pc_cli' = "off" THEN AllNone ELSE cli
    /\ inv' = NoInv
    /\ CliFrame
    /\ UNCHANGED <<made, files>>

CliRunStep == \E k \in 2..6, wrote \in BOOLEAN : (wrote \/ k \in {5, 6}) /\ CliRun(k, wrote)
CliLoadStep == \E k \in 2..5 : CliLoad(k)
CliSkipStep == \E k \in 2..6 : CliSkip(k)

\* an artifact store as earlier use may have left it: empty, or the documents
\* of the first three or of all six phases, with or without
\* extracted_data.json (run_arcee_maestro.py writes pms_questions.json where
\* no extracted_data.json exists)
Stores ==
    {[j \in Phases |-> IF j \in lo..n THEN Artifact(0, 0) ELSE NoFile]
        : lo \in {1, 2}, n \in {0, 3, 6}}

InitSession(store) ==
    /\ files = store
    /\ session = [j \in Phases |-> InitOrReset(j, None, "None", store)]
    /\ reset_trigger = FALSE
    /\ reset_phase = "None"
    /\ made = 0
    /\ before = AllNone
    /\ just_reset = 0
    /\ inv = NoInv
    /\ cli = AllNone
    /\ pc_cli = "off"

InitStore == \E store \in Stores : InitSession(store)

InitFresh == InitSession([j \in Phases |-> NoFile])

NextFront ==
    \/ ResetClick
    \/ ScriptRerun
    \/ LoadDemoData
    \/ LoadSavedClick
    \/ ProcessInputs
    \/ PhaseClick

NextApp ==
    \/ NextFront
    \/ NewSession
    \/ CliStart
    \/ CliRunStep
    \/ CliLoadStep
    \/ CliSkipStep

(***************************************************************************)
(* Persistence: save_state_to_file, and the three ways the front-end loads *)
(* a document back (the initialisation block of a new session, the Load    *)
(* Saved button of the phase, Load Demo Data).                             *)
(*                                                                         *)
(* A JSON document is a tree [t, v]: null, a string, a number, an array    *)
(* (v: the sequence of its items) or an object (v: its members, a function *)
(* from the keys the object holds).  json.dump writes a dict key only      *)
(* when the dict holds it; a record of the model that stands for a dict    *)
(* without "question_text" or without "de_risking_plan" is written         *)
(* without that member.  A Python value is Absent (None) or Present(v).    *)
(***************************************************************************)
Json(t, v) == [t |-> t, v |-> v]
JNull == Json("null", <<>>)

NoDocument == [exists |-> FALSE, json |-> JNull]
Document(json) == [exists |-> TRUE, json |-> json]

\* json.dump(data) for the value the handler of phase k saves; None is Absent
json_dump(k, data) ==
    LET ExtractedKeys == {"market_chapter", "context", "pitch_deck_text", "market_report_text"}
        RiskNumbers == {"question_number", "probability", "impact", "risk_score"}
        RiskStrings == {"risk_category", "risk_tier", "justification"}
        RiskKeys(r) ==
            RiskNumbers \cup RiskStrings
            \cup (IF r.question_text # AbsentText THEN {"question_text"} ELSE {})
            \cup (IF r.de_risking_plan.present THEN {"de_risking_plan"} ELSE {})
        DumpExtracted(d) == Json("object", [key \in ExtractedKeys |-> Json("string", d[key])])
        DumpPms(d) ==
            Json("object", [model \in DOMAIN d |->
                Json("array", [i \in 1..Len(d[model]) |-> Json("string", d[model][i])])])
        DumpQuestion(q) ==
            Json("object", [key \in {"question_number", "question_text", "reasoning"} |->
                IF key = "question_number" THEN Json("number", q[key])
                ELSE Json("string", q[key])])
        DumpPlan(p) == Json("object", [key \in p.keys |-> Json("string", p.note)])
        DumpRisk(r) ==
            Json("object", [key \in RiskKeys(r) |->
                IF key \in RiskNumbers THEN Json("number", r[key])
                ELSE IF key = "de_risking_plan" THEN DumpPlan(r[key])
                ELSE Json("string", r[key])])
        DumpReflection(j) ==
            Json("object", [key \in j.keys |-> Json("array", << Json("string", key) >>)])
    IN  IF ~data.present THEN JNull
        ELSE CASE k = 1 -> DumpExtracted(data.value)
               [] k = 2 -> DumpPms(data.value)
               [] k = 3 -> Json("array", [i \in 1..Len(data.value) |-> DumpQuestion(data.value[i])])
               [] k \in {4, 5} ->
                      Json("array", [i \in 1..Len(data.value) |-> DumpRisk(data.value[i])])
               [] k = 6 -> DumpReflection(data.value)

\* save_state_to_file(data, file_path): the document is replaced
save_state_to_file(k, data) == Document(json_dump(k, data))

\* what the handler of phase k hands to save_state_to_file: the session value,
\* and for Phase 4 its 'risks' list (line 401)
SavedPart(k, value) ==
    IF k = 4 /\ value.present THEN Present(value.value.risks) ELSE value

\* json.load(f) of the document of phase k; a record of the model gets
\* AbsentText or NoPlan for a member the object does not hold
json_load(k, json) ==
    LET Member(members, key, default) ==
            IF key \in DOMAIN members THEN members[key].v ELSE default
        LoadExtracted(j) == [key \in DOMAIN j.v |-> j.v[key].v]
        LoadPms(j) ==
            [model \in DOMAIN j.v |-> [i \in 1..Len(j.v[model].v) |-> j.v[model].v[i].v]]
        LoadQuestion(j) ==
            Question(j.v["question_number"].v, j.v["question_text"].v, j.v["reasoning"].v)
        LoadPlan(members) ==
            IF "de_risking_plan" \notin DOMAIN members THEN NoPlan
            ELSE LET plan == members["de_risking_plan"].v
                 IN  [present |-> TRUE, keys |-> DOMAIN plan,
                      note |-> IF DOMAIN plan = {} THEN ""
                               ELSE plan[CHOOSE key \in DOMAIN plan : TRUE].v]
        LoadRisk(j) ==
            Risk(j.v["question_number"].v,
                 Member(j.v, "question_text", AbsentText),
                 j.v["risk_category"].v,
                 j.v["probability"].v, j.v["impact"].v, j.v["risk_score"].v,
                 j.v["risk_tier"].v, j.v["justification"].v,
                 LoadPlan(j.v))
    IN  IF json.t = "null" THEN Absent
        ELSE CASE k = 1 -> Present(LoadExtracted(json))
               [] k = 2 -> Present(LoadPms(json))
               [] k = 3 -> Present([i \in 1..Len(json.v) |-> LoadQuestion(json.v[i])])
               [] k \in {4, 5} -> Present([i \in 1..Len(json.v) |-> LoadRisk(json.v[i])])
               [] k = 6 -> Present(Reflection(DOMAIN json.v))

\* isinstance(loaded, list); "if loaded:" on what json.load gave
IsList(json) == json.t = "array"

TruthyJson(json) ==
    CASE json.t = "null" -> FALSE
      [] json.t = "array" -> Len(json.v) > 0
      [] json.t = "object" -> DOMAIN json.v # {}
      [] OTHER -> TRUE

\* leaves the summary out of the bundle it rebuilds
RebuildBundle_NoStats(loaded_risks) ==
    [risks |-> loaded_risks, summary_stats |-> SummaryStats(<<>>)]

\* lines 76-84 (and 216-224, 440-448): the bundle rebuilt from the flat list
RebuildBundle(loaded_risks) ==
    [risks |-> loaded_risks,
     summary_stats |->
        [high_risks |-> Cardinality({i \in 1..Len(loaded_risks) :
                                        loaded_risks[i].risk_tier = "High"}),
         medium_risks |-> Cardinality({i \in 1..Len(loaded_risks) :
                                          loaded_risks[i].risk_tier = "Medium"}),
         low_risks |-> Cardinality({i \in 1..Len(loaded_risks) :
                                       loaded_risks[i].risk_tier = "Low"}),
         total_risks_assessed |-> Len(loaded_risks)]]

\* what the session key of phase k is assigned from a loaded document
FromLoaded(k, json) ==
    IF k = 4 /\ IsList(json)
    THEN Present(RebuildBundle(json_load(k, json).value))
    ELSE json_load(k, json)

\* one initialisation block of a session whose key is missing (lines 38-108)
LoadAtStartup(k, doc) ==
    IF doc.exists THEN FromLoaded(k, doc.json) ELSE Absent

\* the Load Saved button of phase k; Load Saved Inputs keeps the context of
\* the caller, which the update of lines 236-240 has made that of the session
LoadByButton(k, current, doc) ==
    IF doc.exists /\ TruthyJson(doc.json)
    THEN IF k = 1
         THEN Present([FromLoaded(k, doc.json).value EXCEPT
                          !["context"] = current.value["context"]])
         ELSE FromLoaded(k, doc.json)
    ELSE current

\* Load Demo Data, for the key of phase k (lines 208-229)
LoadByDemo(k, current, doc) ==
    IF k = 4
    THEN IF doc.exists /\ TruthyJson(doc.json) THEN FromLoaded(k, doc.json) ELSE current
    ELSE IF doc.exists THEN json_load(k, doc.json) ELSE Absent

\* ---- the artifacts the phase functions hand to their handlers ----
ExtractedData(context) ==
    [market_chapter |-> << "market chapter", NL, "text" >>, context |-> context,
     pitch_deck_text |-> << "pitch deck text" >>,
     market_report_text |-> << >>]

SessionValues(k) ==
    LET Contexts == {<< "Series C", " nuclear" >>, << "pre-seed" >>}
        StoreResponses2 == PipeResponses2 \cup {OkResponse(PlainContent(1))}
        \* risk lists with a high score, with none, with a plan left by a model
        StoreRiskLists ==
            {RiskList(GenuineFinal, response_data) : response_data \in PipeResponses4}
            \cup {LLMRiskList(NumFinal, [i \in 1..NumFinal |-> sc], v) :
                     sc \in BorderPool, v \in {"notext", "withplan"}}
    IN  CASE k = 1 -> {ExtractedData(context) : context \in Contexts}
          [] k = 2 -> {generate_pms_questions(rs) :
                          rs \in [1..Len(models_to_use) -> StoreResponses2]}
          [] k = 3 -> {consolidate_questions(response_data) : response_data \in Responses3}
          [] k = 4 -> {perform_risk_assessment(GenuineFinal, response_data) :
                          response_data \in Responses4}
          [] k = 5 -> UNION {{develop_derisking_strategies(l, outs).returned :
                                 outs \in [1..Len(CallPositions(l)) -> PipeResponses5]} :
                             l \in StoreRiskLists}
          [] k = 6 -> {Reflection(ReflectionKeys), Reflection(ReflectionKeys \cup {"summary"})}

\* the handler of phase k has run: the session holds what the phase function
\* returned and the handler saves it (lines 268, 319, 360, 401, 477, 569)
SaveArtifact ==
    /\ pcs = "idle"
    /\ doc_s' = save_state_to_file(phase_s, SavedPart(phase_s, session_s))
    /\ saved_s' = session_s
    /\ pcs' = "saved"
    /\ via_s' = "none"
    /\ UNCHANGED <<phase_s, session_s>>

\* a reset that covers the phase clears the session key
ResetKey ==
    /\ pcs = "saved"
    /\ session_s.present
    /\ session_s' = Absent
    /\ UNCHANGED <<pcs, phase_s, saved_s, doc_s, via_s>>

\* a new browser session: the key is missing and its block loads the document
StartupLoad ==
    /\ pcs = "saved"
    /\ session_s' = LoadAtStartup(phase_s, doc_s)
    /\ pcs' = "loaded"
    /\ via_s' = "startup"
    /\ UNCHANGED <<phase_s, saved_s, doc_s>>

\* Load Saved Inputs is shown only while the session holds extracted data
ButtonLoad ==
    /\ pcs = "saved"
    /\ phase_s = 1 => session_s.present
    /\ session_s' = LoadByButton(phase_s, session_s, doc_s)
    /\ pcs' = "loaded"
    /\ via_s' = "button"
    /\ UNCHANGED <<phase_s, saved_s, doc_s>>

DemoLoad ==
    /\ pcs = "saved"
    /\ session_s' = LoadByDemo(phase_s, session_s, doc_s)
    /\ pcs' = "loaded"
    /\ via_s' = "demo"
    /\ UNCHANGED <<phase_s, saved_s, doc_s>>

InitSWith(k, value) ==
    /\ pcs = "idle"
    /\ phase_s = k
    /\ session_s = value
    /\ saved_s = Absent
    /\ doc_s = NoDocument
    /\ via_s = "none"

InitS == InitSWith(6, Absent)

NextStore == SaveArtifact \/ ResetKey \/ StartupLoad \/ ButtonLoad \/ DemoLoad

(***************************************************************************)
(* The context field of the front-end.  Every step is one run of the       *)
(* script of app.py: the text_area of the sidebar returns context, the     *)
(* update of lines 236-240 runs when context is not empty, then the        *)
(* handler of the button that was clicked.  A text_area without a key is a *)
(* new widget, showing its default, whenever its default value changes;    *)
(* otherwise it keeps what the user typed.                                 *)
(***************************************************************************)
NoContext == << >>
InputContexts == {<< "Series C", " nuclear" >>, << "pre-seed" >>}

\* what main_cli puts into extracted_data.json when the source documents are
\* not found
PlaceholderInputs(company_context_cli) ==
    [market_chapter |-> << "Default market chapter text if file not found." >>,
     context |-> company_context_cli,
     pitch_deck_text |-> << "Placeholder pitch deck text." >>,
     market_report_text |-> << "Placeholder market report text." >>]

\* the update without the save of line 240
ContextUpdate_NoSave(context, data, doc) ==
    IF context # NoContext /\ data.present /\ data.value["context"] # context
    THEN [data |-> Present([data.value EXCEPT !["context"] = context]), doc |-> doc]
    ELSE [data |-> data, doc |-> doc]

\* lines 236-240: [data, doc] are the session key and the document afterwards
ContextUpdate(context, data, doc) ==
    IF context # NoContext /\ data.present /\ data.value["context"] # context
    THEN [data |-> Present([data.value EXCEPT !["context"] = context]),
          doc |-> save_state_to_file(1, Present([data.value EXCEPT !["context"] = context]))]
    ELSE [data |-> data, doc |-> doc]

\* value= of the text_area (line 167)
DefaultContext(data) == IF data.present THEN data.value["context"] ELSE NoContext

\* what the text_area returns in the run that follows st.rerun()
WidgetAfterRerun(shown, data_before, data_after) ==
    IF DefaultContext(data_after) # DefaultContext(data_before)
    THEN DefaultContext(data_after)
    ELSE shown

Snapshot == [context |-> context_w, data |-> extracted_data, doc |-> extracted_doc,
             later |-> later]

\* the user edits the context; the script runs with no button clicked
ContextEdited ==
    /\ \E context \in InputContexts \cup {NoContext} :
          /\ context # context_w
          /\ context_w' = context
          /\ extracted_data' = ContextUpdate(context, extracted_data, extracted_doc).data
          /\ extracted_doc' = ContextUpdate(context, extracted_data, extracted_doc).doc
    /\ before_i' = Snapshot
    /\ last_i' = "edit"
    /\ UNCHANGED later

\* Process Inputs (lines 250-280): offered while the session holds no inputs
ProcessInputsClicked ==
    /\ context_w # NoContext
    /\ ~extracted_data.present
    /\ extracted_data' = Present(ExtractedData(context_w))
    /\ extracted_doc' = save_state_to_file(1, Present(ExtractedData(context_w)))
    /\ before_i' = Snapshot
    /\ last_i' = "process"
    /\ UNCHANGED <<context_w, later>>

\* Load Saved Inputs (lines 290-302), after the update of the same run
LoadSavedInputsClicked ==
    /\ context_w # NoContext
    /\ extracted_data.present
    /\ LET updated == ContextUpdate(context_w, extracted_data, extracted_doc)
       IN  /\ extracted_data' = LoadByButton(1, updated.data, updated.doc)
           /\ extracted_doc' = updated.doc
    /\ before_i' = Snapshot
    /\ last_i' = "load"
    /\ UNCHANGED <<context_w, later>>

\* Load Demo Data (lines 200-233) and the run that follows its st.rerun()
LoadDemoDataClicked ==
    /\ extracted_doc.exists \/ later.files # {}
    /\ LET loaded == LoadByDemo(1, extracted_data, extracted_doc)
           shown == WidgetAfterRerun(context_w, extracted_data, loaded)
       IN  /\ context_w' = shown
           /\ extracted_data' = ContextUpdate(shown, loaded, extracted_doc).data
           /\ extracted_doc' = ContextUpdate(shown, loaded, extracted_doc).doc
    /\ later' = [later EXCEPT !.session = later.files]
    /\ before_i' = Snapshot
    /\ last_i' = "demo"

\* Reset All Phases and the run that follows: the keys are cleared, no
\* document is touched
ResetAllClicked ==
    /\ extracted_data.present \/ later.session # {}
    /\ extracted_data' = Absent
    /\ later' = [later EXCEPT !.session = {}]
    /\ context_w' = WidgetAfterRerun(context_w, extracted_data, Absent)
    /\ before_i' = Snapshot
    /\ last_i' = "reset"
    /\ UNCHANGED extracted_doc

\* main_cli prepares the inputs and writes extracted_data.json in the same
\* directory (lines 939-984)
CliWritesInputs ==
    /\ \E company_context_cli \in InputContexts :
          extracted_doc' = save_state_to_file(1, Present(PlaceholderInputs(company_context_cli)))
    /\ extracted_doc' # extracted_doc
    /\ before_i' = Snapshot
    /\ last_i' = "cli"
    /\ UNCHANGED <<context_w, extracted_data, later>>

\* the phases 2..6 that hold an artifact in the session, and those with a
\* document, when the session starts
LaterStates ==
    {[session |-> held, files |-> held] : held \in {{}, {2, 3}, 2..6}}

\* a new session: the key is initialised from the document (lines 38-50) and
\* the text_area shows its default
InitInputsWith(doc, held) ==
    /\ extracted_doc = doc
    /\ extracted_data = LoadAtStartup(1, doc)
    /\ context_w = DefaultContext(LoadAtStartup(1, doc))
    /\ later = held
    /\ before_i = [context |-> NoContext, data |-> Absent, doc |-> NoDocument, later |-> held]
    /\ last_i = "none"

InitI == InitInputsWith(NoDocument, [session |-> {}, files |-> {}])

NextInputs ==
    \/ ContextEdited
    \/ ProcessInputsClicked
    \/ LoadSavedInputsClicked
    \/ LoadDemoDataClicked
    \/ ResetAllClicked
    \/ CliWritesInputs

(***************************************************************************)
(* The start of a new session: the script of app.py runs with an empty     *)
(* st.session_state and no reset requested (lines 31-116), then builds the *)
(* sidebar (line 167).  A block whose document does not exist assigns      *)
(* nothing.  A block whose document exists reads st.session_state.<key>    *)
(* in its elif condition, outside the try, while the key has never been    *)
(* assigned: SessionStateProxy.__getattr__ raises AttributeError for such  *)
(* a key; the rest of this model follows the reading None.  Both outcomes  *)
(* of the read are kept here.                                              *)
(***************************************************************************)
Unset == [kind |-> "unset", id |-> 0, from |-> 0]
CorruptDoc == [kind |-> "not json", id |-> 0, from |-> 0]
MissingReads == {"None", "AttributeError"}

\* one initialisation block of a session without the key and without a reset
\* request, for a read of the missing key that gives None
FreshBlock(j, store) ==
    IF exists(store[j]) THEN load_state_from_file(store[j]) ELSE Unset

\* the first block whose elif condition reads the missing key, 0 if none does
FirstRead(store) ==
    IF \E j \in Phases : exists(store[j])
    THEN SetMin({j \in Phases : exists(store[j])})
    ELSE 0

\* lines 31-116 and the text_area of line 167, which reads extracted_data:
\* the blocks run in order up to the first read that raises
SessionStart ==
    /\ pcn = "fresh"
    /\ \E reads \in MissingReads :
          LET stops == reads = "AttributeError" /\ FirstRead(store_n) # 0
              after == [j \in Phases |->
                          IF stops /\ j >= FirstRead(store_n) THEN Unset
                          ELSE FreshBlock(j, store_n)]
          IN  /\ read_n' = reads
              /\ session_n' = after
              /\ pcn' = IF stops \/ (reads = "AttributeError" /\ after[1] = Unset)
                        THEN "raised" ELSE "started"
    /\ UNCHANGED store_n

InitStartWith(store) ==
    /\ pcn = "fresh"
    /\ store_n = store
    /\ session_n = [j \in Phases |-> Unset]
    /\ read_n = "None"

InitN == InitStartWith([j \in Phases |-> NoFile])

NextStart == SessionStart

(***************************************************************************)
(* develop_derisking_strategies invoked twice on one Phase 4 artifact, as  *)
(* a second click of the Phase 5 button or a second run of main_cli does.  *)
(* The second invocation is given the list as the first one left it.       *)
(***************************************************************************)
NotInvoked == [returned |-> <<>>, input_after |-> <<>>, wrote |-> FALSE,
               calls |-> <<>>, raised |-> FALSE]

TwiceScores ==
    {[k \in 1..NumFinal |-> <<3, 5, 15, "High">>],
     [k \in 1..NumFinal |-> IF k = 2 THEN <<4, 5, 20, "High">> ELSE <<1, 3, 3, "Low">>],
     [k \in 1..NumFinal |-> <<1, 3, 3, "Low">>]}

\* Phase 4 artifacts: accepted lists as perform_risk_assessment sorts them,
\* and the placeholder list
TwiceLists ==
    {SortByScoreDesc(LLMRiskList(NumFinal, f, v)) : f \in TwiceScores, v \in Variants}
    \cup {[k \in 1..NumFinal |-> PlaceholderRisk(GenuineFinal[k])]}

TwiceResponses ==
    {JsonResponse("failure", <<>>, NoneJson5),
     JsonResponse("null", <<>>, NoneJson5),
     JsonResponse("ok", << JTEXT >>,
                  [type |-> "dict", keys |-> {"de_risking_plan"}, islist |-> FALSE,
                   value |-> GeneratedPlan])}

InvokeFirst ==
    /\ pct = "idle"
    /\ \E outs \in [1..Len(CallPositions(list_t)) -> TwiceResponses] :
          /\ first_t' = develop_derisking_strategies(list_t, outs)
          /\ list_t' = develop_derisking_strategies(list_t, outs).input_after
    /\ pct' = "once"
    /\ UNCHANGED <<given_t, second_t>>

InvokeSecond ==
    /\ pct = "once"
    /\ \E outs \in [1..Len(CallPositions(list_t)) -> TwiceResponses] :
          /\ second_t' = develop_derisking_strategies(list_t, outs)
          /\ list_t' = develop_derisking_strategies(list_t, outs).input_after
    /\ pct' = "twice"
    /\ UNCHANGED <<given_t, first_t>>

InitTwiceWith(risks) ==
    /\ pct = "idle"
    /\ given_t = risks
    /\ list_t = risks
    /\ first_t = NotInvoked
    /\ second_t = NotInvoked

InitT == InitTwiceWith(<<>>)

NextTwice == InvokeFirst \/ InvokeSecond

(***************************************************************************)
(* The processing_phase marker of the front-end.  Each phase button of     *)
(* app.py is created with disabled = processing_phase is not None or the   *)
(* previous artifact is None, and only while the phase's own artifact is   *)
(* None.  Its handler assigns processing_phase = "phaseK" first, runs the  *)
(* phase inside try, reports an Exception in except, and in finally        *)
(* assigns processing_phase = None and asks for a rerun.  A handler is     *)
(* modelled in two steps, its start and its end, so that the states in     *)
(* which it runs are visible; running_h is the set of phases whose handler *)
(* has started and not ended.  A handler ends in one of three ways: the    *)
(* phase function returned, it raised an Exception, or the script run was  *)
(* stopped by an exception that except Exception does not catch.           *)
(***************************************************************************)
MaxHandlers == 6

HandlerEnds == {"returned", "raised", "stopped"}

\* resets the marker only when the phase function returned
AfterHandler_OnReturn(current, ending) == IF ending = "returned" THEN "None" ELSE current

\* finally: st.session_state.processing_phase = None
AfterHandler(current, ending) == "None"

\* disabled = st.session_state.processing_phase is not None or ...
MarkerDisables(marker) == marker # "None"

ButtonOffered(k) ==
    /\ ~present_h[k]
    /\ ~MarkerDisables(processing_phase)
    /\ k > 1 => present_h[k - 1]

HandlerStart(k) ==
    /\ done_h < MaxHandlers
    /\ ButtonOffered(k)
    /\ processing_phase' = PhaseName(k)
    /\ running_h' = running_h \cup {k}
    /\ UNCHANGED <<present_h, ended_h, done_h>>

\* the artifact is assigned only when the phase function returned
HandlerEnd(k, ending) ==
    /\ k \in running_h
    /\ present_h' = [present_h EXCEPT ![k] = ending = "returned"]
    /\ processing_phase' = AfterHandler(processing_phase, ending)
    /\ running_h' = running_h \ {k}
    /\ ended_h' = <<k, ending>>
    /\ done_h' = done_h + 1

\* reset_state(phase) and the rerun that clears the phase and the later ones
HandlerReset(k) ==
    /\ running_h = {}
    /\ present_h[k]
    /\ present_h' = [j \in Phases |-> present_h[j] /\ j < k]
    /\ UNCHANGED <<processing_phase, running_h, ended_h, done_h>>

InitH ==
    /\ processing_phase = "None"
    /\ running_h = {}
    /\ present_h = [j \in Phases |-> FALSE]
    /\ ended_h = <<0, "none">>
    /\ done_h = 0

NextHandlers ==
    \/ \E k \in Phases : HandlerStart(k)
    \/ \E k \in Phases, ending \in HandlerEnds : HandlerEnd(k, ending)
    \/ \E k \in Phases : HandlerReset(k)

(***************************************************************************)
(* A reset request through the script runs of one session.  Every script   *)
(* run of app.py executes the initialisation blocks (lines 38-108), whose  *)
(* keys are all assigned in a session that has started, so a block does    *)
(* something only when reset_trigger is set; lines 113-116 then clear the  *)
(* request.  since_reset remembers what happened since the last request:   *)
(* "requested", "processed" by a script run, an artifact "produced" by a   *)
(* phase run after that, and a later script "rerun"; with the phase.       *)
(***************************************************************************)
\* leaves the request as it is after the script run
ConsumeRequest_Kept(trigger, phase) == <<trigger, phase>>

\* if st.session_state.reset_trigger: reset_trigger = False, reset_phase = None
ConsumeRequest(trigger, phase) == IF trigger THEN <<FALSE, "None">> ELSE <<trigger, phase>>

\* the six blocks in a session whose keys are assigned
InitBlocks(held, trigger, phase, store) ==
    [j \in Phases |-> IF trigger THEN InitOrReset(j, held[j], phase, store) ELSE held[j]]

\* one script run of a started session, with or without a request
Rerun ==
    /\ pc_cli = "off"
    /\ session' = InitBlocks(session, reset_trigger, reset_phase, files)
    /\ reset_trigger' = ConsumeRequest(reset_trigger, reset_phase)[1]
    /\ reset_phase' = ConsumeRequest(reset_trigger, reset_phase)[2]
    /\ just_reset' = IF reset_trigger THEN PhaseIndex(reset_phase) ELSE 0
    /\ before' = IF reset_trigger THEN before ELSE AllNone
    /\ UNCHANGED <<files, made, inv, cli, pc_cli>>

NoRequest == <<"none", 0>>

Produced == {k \in Phases : session[k] = None /\ session'[k] # None}

RequestMade == ResetClick /\ since_reset' = <<"requested", 0>>

RequestRun ==
    /\ Rerun
    /\ since_reset' = IF since_reset[1] = "requested" THEN <<"processed", 0>>
                      ELSE IF since_reset[1] = "produced" THEN <<"rerun", since_reset[2]>>
                      ELSE since_reset

PhaseAfterRequest ==
    /\ PhaseClick
    /\ since_reset' = IF since_reset[1] = "processed" /\ Produced # {}
                      THEN <<"produced", CHOOSE k \in Phases : k \in Produced>>
                      ELSE since_reset

OtherClick ==
    /\ LoadDemoData \/ LoadSavedClick \/ ProcessInputs \/ NewSession
    /\ UNCHANGED since_reset

InitK == since_reset = NoRequest

NextConsumed ==
    \/ RequestMade
    \/ RequestRun
    \/ PhaseAfterRequest
    \/ OtherClick

(***************************************************************************)
(* The summary statistics of a Phase 4 bundle, wherever one is built:      *)
(* perform_risk_assessment (lines 467-480), and the bundle rebuilt from a  *)
(* persisted list by the initialisation block of app.py (lines 75-84), by  *)
(* Load Demo Data and the Load Saved button (the same expression), and by  *)
(* main_cli (lines 1033-1041).  The persisted lists hold records of the    *)
(* three tiers, of the placeholder tier and of a tier a model invented.    *)
(***************************************************************************)
MaxPersisted == 3

PersistedTiers == {"High", "Medium", "Low", "Error", "Critical"}

PersistedRisk(k, tier) ==
    Risk(k, LLMText(k), "LLM category", 3, 3, 9, tier, "LLM justification", NoPlan)

PersistedLists ==
    UNION {{[k \in 1..n |-> PersistedRisk(k, f[k])] : f \in [1..n -> PersistedTiers]}
              : n \in 0..MaxPersisted}

\* main_cli: risk_assessment_output_cli of a loaded list
CliRebuild(loaded_risks) ==
    [risks |-> loaded_risks,
     summary_stats |->
        [high_risks |-> Len(SelectSeq(loaded_risks, LAMBDA r : r.risk_tier = "High")),
         medium_risks |-> Len(SelectSeq(loaded_risks, LAMBDA r : r.risk_tier = "Medium")),
         low_risks |-> Len(SelectSeq(loaded_risks, LAMBDA r : r.risk_tier = "Low")),
         total_risks_assessed |-> Len(loaded_risks)]]

\* perform_risk_assessment never reads the persisted list: it is run where
\* none is stored, writes its list and returns the bundle
StatsAssess ==
    /\ pcq = "idle"
    /\ list_q = <<>>
    /\ \E response_data \in Responses4 :
          /\ bundle_q' = perform_risk_assessment(GenuineFinal, response_data)
          /\ list_q' = perform_risk_assessment(GenuineFinal, response_data).risks
    /\ via_q' = "assessed"
    /\ pcq' = "built"

\* the initialisation block and Load Demo Data rebuild from any list; the
\* Load Saved button only from a list that is not empty
StatsRebuild ==
    /\ pcq = "idle"
    /\ \E via \in {"startup", "button", "demo"} :
          /\ via \in {"button", "demo"} => list_q # <<>>
          /\ via_q' = via
    /\ bundle_q' = RebuildBundle(list_q)
    /\ pcq' = "built"
    /\ UNCHANGED list_q

StatsCliRebuild ==
    /\ pcq = "idle"
    /\ bundle_q' = CliRebuild(list_q)
    /\ via_q' = "cli"
    /\ pcq' = "built"
    /\ UNCHANGED list_q

InitStatsWith(l) ==
    /\ pcq = "idle"
    /\ list_q = l
    /\ bundle_q = [risks |-> <<>>, summary_stats |-> SummaryStats(<<>>)]
    /\ via_q = "none"

InitQ == InitStatsWith(<<>>)

NextStats ==
    \/ StatsAssess
    \/ StatsRebuild
    \/ StatsCliRebuild

(***************************************************************************)
(* Properties.                                                             *)
(***************************************************************************)
Range(l) == {l[k] : k \in 1..Len(l)}
Count(l, x) == Cardinality({k \in 1..Len(l) : l[k] = x})
SameBag(a, b) ==
    /\ Len(a) = Len(b)
    /\ \A x \in Range(a) \cup Range(b) : Count(a, x) = Count(b, x)
NonBlankCount(content) == Len(SelectSeq(split(content, NL), NonBlank))

\* C1: once generate_pms_questions has returned, every model key of the
\* RawQuestionSet, as returned and as persisted, maps to exactly 10 entries,
\* whatever the Gateway answered for each model.
C1_FixedArity ==
    pc2 = "returned" =>
        /\ \A m \in DOMAIN results : Len(results[m]) = 10
        /\ pms_doc.exists
        /\ \A m \in DOMAIN pms_doc.data : Len(pms_doc.data[m]) = 10

\* a returned run in which one response held more than 10 non-blank lines and
\* another call failed or held fewer than 10
C1_Witness ==
    /\ pc2 = "returned"
    /\ \E i, j \in 1..Len(responses2) :
          /\ responses2[i].kind = "ok"
          /\ NonBlankCount(responses2[i].content) > 10
          /\ \/ responses2[j].kind # "ok"
             \/ NonBlankCount(responses2[j].content) < 10

\* C2: every list consolidate_questions returns and persists has exactly 5
\* records whose question_number values are exactly 1, 2, 3, 4, 5.
C2_NumberedOneToFive ==
    pc3 = "returned" =>
        /\ Len(final_questions) = 5
        /\ {final_questions[k].question_number : k \in 1..Len(final_questions)} = 1..5
        /\ final_doc.data = final_questions

\* the thresholds Low 1-7, Medium 8-14, High 15-25
TierOf(score) ==
    CASE score \in 15..25 -> "High"
      [] score \in 8..14 -> "Medium"
      [] score \in 1..7 -> "Low"
      [] OTHER -> "no tier"

\* C3: every record of the artifact perform_risk_assessment returns and
\* persists has risk_score = probability * impact and, where its risk_score
\* lies in the range 1..25 the thresholds cover, the risk_tier they give.
C3_ScoreAndTier ==
    pc45 = "assessed" =>
        \A r \in Range(bundle.risks) \cup Range(risk_doc.data) :
            /\ r.risk_score = r.probability * r.impact
            /\ r.risk_score \in 1..25 => r.risk_tier = TierOf(r.risk_score)

\* C8: the records a de-risking call is issued for are exactly the
\* min(3, number of records scoring >= 15) highest-scoring records with
\* risk_score >= 15 of the list Phase 4 handed over.
C8_SelectsTopThree ==
    pc45 = "derisked" =>
        LET called == Range(calls5)
            scoring == {i \in 1..Len(given5) : given5[i].risk_score >= 15}
        IN  /\ Len(calls5) = (IF Cardinality(scoring) < 3 THEN Cardinality(scoring) ELSE 3)
            /\ called \subseteq scoring
            /\ \A i \in called : \A j \in scoring \ called :
                  given5[j].risk_score <= given5[i].risk_score

WithoutPlan(r) == [r EXCEPT !.de_risking_plan = NoPlan]

\* same length, same records in the same order, every record with a plan entry
SameRecordsAllPlanned ==
    /\ Len(derisked) = Len(given5)
    /\ \A i \in 1..Len(given5) :
          /\ WithoutPlan(derisked[i]) = WithoutPlan(given5[i])
          /\ derisked[i].de_risking_plan.present

Parsed4 == ParsedRisks(final_in, response4)
Placeholders4 == [k \in 1..Len(final_in) |-> PlaceholderRisk(final_in[k])]

\* C10: the list perform_risk_assessment produces has one record per input
\* question and is either all of the parsed records (their count equals the
\* input count) or all placeholders built from the input questions.
C10_AllOrNothing ==
    pc45 = "assessed" =>
        /\ Len(bundle.risks) = Len(final_in)
        /\ risk_doc.data = bundle.risks
        /\ IF Parsed4 # <<>> /\ Len(Parsed4) = Len(final_in)
           THEN SameBag(bundle.risks, Parsed4)
           ELSE SameBag(bundle.risks, Placeholders4)

\* a response that parsed to fewer records than questions was discarded whole
C10_Witness ==
    /\ pc45 = "assessed"
    /\ Len(Parsed4) = Len(final_in) - 1
    /\ \A r \in Range(bundle.risks) : r.risk_category = "[Assessment Error]"

\* C4: when the script run that processes a reset request for phase k has
\* finished, the session artifacts of phases k..6 are None, whatever they were
\* and whatever documents the store holds.
C4_ResetClears ==
    just_reset # 0 => \A j \in just_reset..6 : session[j] = None

\* a reset was processed that cleared an artifact whose document is in the store
C4_Witness ==
    /\ just_reset # 0
    /\ \E j \in just_reset..6 :
          /\ before[j] # None
          /\ files[j].kind = "artifact"
          /\ session[j] = None

\* C5: when the script run that processes a reset request for phase k has
\* finished, the session artifacts of phases 1..k-1 are what they were when
\* the reset was requested.
C5_LeavesEarlier ==
    just_reset # 0 => \A j \in 1..(just_reset - 1) : session[j] = before[j]

\* C6: from an empty store and session, every present artifact of a phase
\* 2..6 was derived from the artifact of the phase before that is present now.
C6_DerivedFromPresent ==
    \A j \in 2..6 :
        session[j] # None =>
            /\ session[j - 1] # None
            /\ session[j].from = session[j - 1].id

Good6(response_data) ==
    /\ response_data.kind = "ok"
    /\ LET parsed == parse_json_from_llm_response(response_data.content,
                         response_data.json, NoneJson6)
       IN  parsed.type = "dict" /\ ReflectionKeys \subseteq parsed.keys

\* C11: once Phase 6 has returned, it returned a reflection exactly when the
\* Gateway call returned content that parses as JSON holding all three keys
\* i_like_reflection, i_wish_reflection and i_wonder_reflection; when it did
\* not, the function returned None and strategic_reflection.json was not
\* written, whether Phase 6 was run from the CLI or from the front-end.
C11_ReflectionIffThreeKeys ==
    pc6 = "returned" =>
        /\ (reflection # NoneJson6) <=> Good6(response6)
        /\ Good6(response6) => reflection = response6.json
        /\ ~Good6(response6) => (writes6 = 0 /\ reflection_doc = doc6_before)

\* The part of C11 that the CLI keeps
C11_FromCli == caller6 = "cli" => C11_ReflectionIffThreeKeys

\* The artifact is there exactly when the content was good, from both callers
C11_ArtifactPart ==
    pc6 = "returned" => ((reflection # NoneJson6) <=> Good6(response6))

(***************************************************************************)
(* Phase 2 under Gateway failures.                                         *)
(***************************************************************************)
\* The call for a model gave nothing to extract from: the Gateway returned
\* None, or a response without choices
Failed2(response_data) == response_data.kind \in {"failure", "nochoices"}

\* C12: whatever subset of the models the Gateway fails for, the loop of
\* Phase 2 runs to its end: the set returned has exactly one key per
\* configured model, a failed model maps to 10 failure sentinels naming it,
\* and every other model maps to the questions extracted from the response
\* to its own call.
C12_OneEntryPerModel ==
    pc2 = "returned" =>
        /\ Len(responses2) = Len(models_to_use)
        /\ DOMAIN results = {models_to_use[i] : i \in 1..Len(models_to_use)}
        /\ \A i \in 1..Len(models_to_use) :
            LET model == models_to_use[i]
            IN  IF Failed2(responses2[i])
                THEN results[model] = [k \in 1..RequiredCount |-> FailedSentinel(model)]
                ELSE results[model] =
                         extract_questions_from_pms_response(responses2[i].content)

\* The first model failed, the second answered with ten questions of its own
C12_Witness ==
    /\ pc2 = "returned"
    /\ Failed2(responses2[1])
    /\ responses2[2] = OkResponse(PlainContent(RequiredCount))
    /\ results[models_to_use[1]][RequiredCount] = FailedSentinel(models_to_use[1])
    /\ results[models_to_use[2]][RequiredCount] = QuestionLine(RequiredCount)

\* An entry Phase 2 writes in place of a question: the gateway-failure
\* sentinel, the empty-content sentinel, a padding placeholder
IsSentinel2(q_text) ==
    \/ \E i \in 1..Len(models_to_use) : q_text = FailedSentinel(models_to_use[i])
    \/ q_text = ModelFailedContent
    \/ \E i \in 1..RequiredCount : q_text = FewerPlaceholder(i)

IsQuestion2(q_text) == ~IsSentinel2(q_text)

\* C13: the list create_consolidation_prompt numbers holds no entry that is a
\* sentinel or placeholder of Phase 2 (gateway failure, empty content,
\* padding), and holds every other entry of the RawQuestionSet, in order.
C13_PromptWithoutSentinels ==
    pc2 = "prompted" =>
        flat_questions = SelectSeq(AllEntries(results), IsQuestion2)

\* What the filter of line 262 does keep out: the two kinds it names
C13_FilteredKinds ==
    pc2 = "prompted" =>
        \A k \in 1..Len(flat_questions) :
            /\ \A i \in 1..Len(models_to_use) :
                   flat_questions[k] # FailedSentinel(models_to_use[i])
            /\ \A i \in 1..RequiredCount : flat_questions[k] # FewerPlaceholder(i)

(***************************************************************************)
(* The parser.                                                             *)
(***************************************************************************)
\* C17: a valid JSON text wrapped in a fenced code block, whether the fence
\* carries a language tag or not, parses to the same value as the text
\* unwrapped, which is the value the text denotes.
C17_FencedParsesAsBare ==
    (pcj = "parsed" /\ Fenced(opener_j) /\ lead_j = << >> /\ trail_j = << >>) =>
        parsed_j = parse_json_from_llm_response(<< JTEXT >>, denoted_j, NoneJson6)

\* With the language tag json the fenced text does parse as the bare one,
\* whatever prose surrounds the block
C17_TaggedParsesAsBare ==
    (pcj = "parsed" /\ Tagged(opener_j)) =>
        parsed_j = parse_json_from_llm_response(<< JTEXT >>, denoted_j, NoneJson6)

\* C18: a valid JSON object followed by non-empty prose parses to the object.
C18_TrailingProse ==
    (/\ pcj = "parsed"
     /\ denoted_j.type = "dict"
     /\ lead_j = << >>
     /\ opener_j = << >>
     /\ trail_j = << NL, PROSE >>) =>
        parsed_j = denoted_j

\* The bare document, white space after it or not, parses to what it denotes
C18_BareParses ==
    (pcj = "parsed" /\ lead_j = << >> /\ opener_j = << >> /\ trail_j \in {<< >>, << NL >>}) =>
        parsed_j = denoted_j

(***************************************************************************)
(* Phase 5 and the list it is given.                                       *)
(***************************************************************************)
\* C19: once develop_derisking_strategies has returned, the list it was given
\* is as it was when the function was called, whether or not a record scored
\* high enough for a de-risking call.
C19_InputUnchanged ==
    pc45 = "derisked" => bundle.risks = given5

\* On the path with at least one high-priority record the list is copied
\* first and the input stays as it was
C19_CopyPath ==
    (pc45 = "derisked" /\ high_priority_risks(given5) # <<>>) => bundle.risks = given5

(***************************************************************************)
(* When the phase documents are written.                                   *)
(***************************************************************************)
AllModels == {models_to_use[i] : i \in 1..Len(models_to_use)}

\* the step is the end of a Phase 2 run all of whose calls have been made, and
\* writes the whole RawQuestionSet of that run
WritesWhole2 ==
    /\ pc2 = "loop" /\ pc2' = "returned"
    /\ Len(responses2) = Len(models_to_use)
    /\ DOMAIN results = AllModels
    /\ \A model \in AllModels : Len(results[model]) = RequiredCount
    /\ pms_doc' = [exists |-> TRUE, data |-> results]

\* the step is a whole run of the single-model script, after a Phase 2 run
\* ended: the document keeps every other model's entry and gets the ten entries
\* of the one call made
WritesWholeArcee ==
    /\ pc2 # "loop" /\ pc2' = "patched"
    /\ pms_doc'.exists
    /\ DOMAIN pms_doc'.data = {ArceeModel} \cup (IF pms_doc.exists THEN DOMAIN pms_doc.data ELSE {})
    /\ Len(pms_doc'.data[ArceeModel]) = RequiredCount
    /\ \A model \in DOMAIN pms_doc'.data \ {ArceeModel} :
           pms_doc'.data[model] = pms_doc.data[model]

\* the step is a whole run of Phase 5 that returned: every call it had to make
\* has been answered and the document holds the whole list returned
WritesWhole5 ==
    /\ pc45' = "derisked"
    /\ Len(responses5') = Len(calls5')
    /\ Len(derisked') = Len(given5')
    /\ derisk_doc' = [exists |-> TRUE, data |-> derisked']

TransportFailure(post) ==
    post.raises # "nothing" \/ post.status_code \notin {200, 201}

C14_ReturnsWithoutRaising ==
    /\ pc2 = "returned" =>
           \A model \in DOMAIN results : Len(results[model]) = RequiredCount
    /\ pc3 = "returned" => Len(final_questions) = NumFinal
    /\ pc45 # "raised"
    /\ pc45 \in {"assessed", "derisked"} => Len(bundle.risks) = Len(final_in)
    /\ pc45 = "derisked" =>
           /\ Len(derisked) = Len(given5)
           /\ \A i \in 1..Len(derisked) : derisked[i].de_risking_plan.present
    /\ pc6 # "raised"
    /\ pc6 = "returned" => (reflection = NoneJson6 \/ ReflectionKeys \subseteq reflection.keys)

\* With a content that is a text, empty or not, no phase function raises
C14_TextContent ==
    /\ pc45 = "raised" => \E k \in 1..Len(responses5) : ContentIsNone(responses5[k])
    /\ pc6 = "raised" => ContentIsNone(response6)

(***************************************************************************)
(* A session under Gateway failures.                                       *)
(***************************************************************************)
\* the artifact of phase k (2..5) is present and has its full shape
WholeArtifact(k) ==
    /\ pipe[k].present
    /\ CASE k = 2 -> \A model \in DOMAIN pipe[2].value :
                         Len(pipe[2].value[model]) = RequiredCount
         [] k = 3 -> Len(pipe[3].value) = NumFinal
         [] k = 4 -> Len(pipe[4].value.risks) = Len(pipe[3].value)
         [] k = 5 -> /\ Len(pipe[5].value) = Len(pipe[4].value.risks)
                     /\ \A i \in 1..Len(pipe[5].value) :
                            pipe[5].value[i].de_risking_plan.present

\* the artifact of phase k (2..5) holds placeholders only
PlaceholdersOnly(k) ==
    CASE k = 2 -> \A model \in DOMAIN pipe[2].value : \A i \in 1..RequiredCount :
                      pipe[2].value[model][i] = FailedSentinel(model)
      [] k = 3 -> \A i \in 1..NumFinal : pipe[3].value[i] = NoResponseQuestion(i)
      [] k = 4 -> \A i \in 1..NumFinal : pipe[4].value.risks[i].risk_tier = "Error"
      [] k = 5 -> \A i \in 1..NumFinal :
                      /\ pipe[5].value[i].risk_tier = "Error"
                      /\ "status" \in pipe[5].value[i].de_risking_plan.keys

RanInOrder == \A k \in pipe_ran : \A j \in 2..(k - 1) : j \in pipe_ran

C15_Safe ==
    /\ RanInOrder
    /\ \A k \in 2..5 : k \in pipe_ran => WholeArtifact(k)
    /\ \A k \in 2..5 : (k \in pipe_ran /\ pipe_failed) => PlaceholdersOnly(k)
    /\ (6 \in pipe_ran /\ pipe_failed) => ~pipe[6].present

\* C15: in a session that starts with extracted inputs, whatever Gateway calls
\* fail, a phase 2..5 that was run left its artifact present and whole, so
\* the next phase can be run, and all of phases 2..6 do get run in order;
\* when every call failed the artifacts of phases 2..5 hold placeholders only
\* and the reflection of Phase 6 is the one that is absent.
C15_FailuresNeverBlock ==
    /\ []C15_Safe
    /\ <>(pipe_ran = PipePhases)

\* every call failed, phases 2..6 were all run, only the reflection is absent
C15_Witness ==
    /\ pipe_failed
    /\ pipe_ran = PipePhases
    /\ \A k \in 2..5 : pipe[k].present
    /\ ~pipe[6].present

(***************************************************************************)
(* Persistence.                                                            *)
(***************************************************************************)
\* C21: for the artifact of every phase, the session value a load assigns
\* from the document save_state_to_file wrote equals the session value the
\* handler saved; for Phase 4 the bundle rebuilt from the flat risk list
\* (risks and recomputed summary_stats) equals the bundle
\* perform_risk_assessment returned.
C21_RoundTrip ==
    pcs = "loaded" => session_s = saved_s

\* a new session rebuilt the Phase 4 bundle from a flat list that holds a
\* high-tier record and a record without a de_risking_plan key
C21_Witness ==
    /\ pcs = "loaded"
    /\ phase_s = 4
    /\ via_s = "startup"
    /\ doc_s.json.t = "array"
    /\ session_s.present
    /\ session_s.value.summary_stats.high_risks > 0
    /\ session_s.value.summary_stats.total_risks_assessed = NumFinal
    /\ \E i \in 1..NumFinal : ~session_s.value.risks[i].de_risking_plan.present

\* C22: every write to risk_assessment.json, whoever makes it, stores a flat
\* list of risk records and never an object wrapping the list.
C22_FlatListOnly ==
    risk_doc.exists =>
        /\ risk_json.t = "array"
        /\ \A i \in DOMAIN risk_json.v :
              risk_json.v[i].t = "object" /\ "risk_score" \in DOMAIN risk_json.v[i].v

\* the writers of intelligence_question_generator.py and app.py do store the
\* flat list
C22_PipelineWritesList ==
    (pc45 = "assessed" /\ caller45 \in {"cli", "app"}) =>
        /\ risk_doc.exists
        /\ risk_json = RiskListJson(bundle.risks)

C23_StoreUntouched ==
    [][(reset_trigger \/ reset_trigger') => files' = files]_vars

\* C24: no Gateway call is retried: whatever the calls answer, a run of
\* Phase 5 issues exactly one call per selected record (the records
\* high_priority_risks holds), each for a different record of the list.
C24_OneCallPerSelected ==
    pc45 \in {"derisked", "raised"} =>
        /\ Len(calls5) = Len(high_priority_risks(given5))
        /\ \A k, m \in 1..Len(calls5) : calls5[k] = calls5[m] => k = m

\* no record of the list is ever called for twice, and every call issued got
\* its one answer
C24_NoRecordTwice ==
    pc45 \in {"derisked", "raised"} =>
        /\ \A k, m \in 1..Len(calls5) : calls5[k] = calls5[m] => k = m
        /\ Len(calls5) <= Len(CallPositions(given5))

\* the consolidation response was parsed into a final_questions list
ListParsed3 ==
    /\ HasChoices(response3)
    /\ LET parsed_json == parse_json_from_llm_response(response3.content, response3.json,
                                                       NoneJson3)
       IN  /\ Truthy(parsed_json)
           /\ parsed_json.type = "dict"
           /\ "final_questions" \in parsed_json.keys
           /\ parsed_json.islist

\* C25: when the model's final_questions list of n records was parsed,
\* consolidate_questions returns and writes five records: the first min(n, 5)
\* of the list, unchanged and in the order returned, followed for n < 5 by
\* placeholders numbered n+1..5 whose text is marked as a consolidation error;
\* for n > 5 the records after the fifth are dropped.
C25_PadOrTruncate ==
    (pc3 = "returned" /\ ListParsed3) =>
        LET returned == response3.json.value
            kept == IF Len(returned) < 5 THEN Len(returned) ELSE 5
        IN  /\ Len(final_questions) = 5
            /\ \A i \in 1..kept : final_questions[i] = returned[i]
            /\ \A i \in (kept + 1)..5 :
                  /\ final_questions[i].question_number = i
                  /\ final_questions[i].question_text[1] = "[Consolidation Error: Missing question "
                  /\ final_questions[i].question_text[2] = ToString(i)
                  /\ final_questions[i].reasoning = "[Error]"
            /\ final_doc = [exists |-> TRUE, data |-> final_questions]

\* a parsed list of three records came back as those three and two placeholders
C25_Witness ==
    /\ pc3 = "returned"
    /\ ListParsed3
    /\ Len(response3.json.value) = 3
    /\ Len(final_questions) = 5
    /\ final_questions[3] = response3.json.value[3]
    /\ final_questions[4] = MissingQuestion(4)
    /\ final_questions[5] = MissingQuestion(5)

\* a parsed list of six records came back as its first five
C25_Truncated ==
    /\ pc3 = "returned"
    /\ ListParsed3
    /\ Len(response3.json.value) = 6
    /\ final_questions = SubSeq(response3.json.value, 1, 5)

Numbers(l) == [k \in 1..Len(l) |-> l[k].question_number]

\* C26: the Phase 4 artifact, as returned and as persisted, holds one record
\* per input question with the same numbering: the question_number values of
\* its records are those of the questions given, each occurring once.
C26_SameNumbering ==
    pc45 = "assessed" =>
        /\ SameBag(Numbers(bundle.risks), Numbers(final_in))
        /\ SameBag(Numbers(risk_doc.data), Numbers(final_in))
        /\ \A i, j \in 1..Len(bundle.risks) :
              bundle.risks[i].question_number = bundle.risks[j].question_number => i = j

\* the placeholder records carry the numbers of the questions, and an accepted
\* list has as many records as there are questions
C26_CountAndPlaceholders ==
    pc45 = "assessed" =>
        /\ Len(bundle.risks) = Len(final_in)
        /\ (\A r \in Range(bundle.risks) : r.risk_category = "[Assessment Error]")
              => SameBag(Numbers(bundle.risks), Numbers(final_in))

\* the records perform_risk_assessment sorts: the parsed list when it was
\* accepted, the placeholders otherwise
Accepted4 == AcceptOrPlaceholders(final_in, Parsed4)

WithScore(l, score) == {k \in 1..Len(l) : l[k].risk_score = score}

\* the k-th record of l with the given score
NthWithScore(l, score, k) ==
    l[CHOOSE i \in WithScore(l, score) :
          Cardinality({j \in WithScore(l, score) : j < i}) = k - 1]

\* C27: the risk list perform_risk_assessment returns and writes is a
\* permutation of the accepted records in descending order of risk_score, in
\* which records of equal score keep the order they had, on the parsed path
\* and on the placeholder path.
C27_SortedStable ==
    pc45 = "assessed" =>
        /\ risk_doc = [exists |-> TRUE, data |-> bundle.risks]
        /\ Len(bundle.risks) = Len(Accepted4)
        /\ \A p, q \in 1..Len(bundle.risks) :
              p < q => bundle.risks[p].risk_score >= bundle.risks[q].risk_score
        /\ \A score \in {Accepted4[k].risk_score : k \in 1..Len(Accepted4)}
                        \cup {bundle.risks[k].risk_score : k \in 1..Len(bundle.risks)} :
              /\ Cardinality(WithScore(bundle.risks, score))
                    = Cardinality(WithScore(Accepted4, score))
              /\ \A k \in 1..Cardinality(WithScore(Accepted4, score)) :
                    NthWithScore(bundle.risks, score, k) = NthWithScore(Accepted4, score, k)

\* an accepted parsed list that was out of order and had two records of equal
\* score was returned sorted
C27_Witness ==
    /\ pc45 = "assessed"
    /\ Accepted4 = Parsed4
    /\ bundle.risks # Accepted4
    /\ \E i, j \in 1..Len(Accepted4) :
          i < j /\ Accepted4[i].risk_score = Accepted4[j].risk_score
    /\ \E i, j \in 1..Len(Accepted4) :
          i < j /\ Accepted4[i].risk_score < Accepted4[j].risk_score

\* C28: whenever develop_derisking_strategies has returned, called by the
\* front-end or by main_cli, on the path with calls and on the path on which
\* no record scores 15 or more, the de-risking report document holds exactly
\* the list that was returned.
C28_ReportHoldsReturned ==
    pc45 = "derisked" => derisk_doc = [exists |-> TRUE, data |-> derisked]

\* it does on the path with calls, and whenever the front-end made the call
C28_WrittenWithCallsOrByHandler ==
    (pc45 = "derisked" /\ (calls5 # <<>> \/ caller45 = "app")) =>
        derisk_doc = [exists |-> TRUE, data |-> derisked]

\* C29: within a run of generate_pms_questions the calls are issued one at a
\* time in the order of the model list: when k calls have been issued, they
\* were for the first k models, each response has already been turned into
\* the entry of its model, no later model has an entry, and one delay has
\* passed after each call but the last of the list.
C29_OneAtATimeInOrder ==
    pc2 \in {"loop", "returned", "aborted"} =>
        LET issued == Len(responses2)
        IN  /\ issued = idx - 1
            /\ issued <= Len(models_to_use)
            /\ DOMAIN results = {models_to_use[k] : k \in 1..issued}
            /\ \A k \in 1..issued :
                  results[models_to_use[k]] = ModelEntry(models_to_use[k], responses2[k])
            /\ sleeps2 = (IF issued < Len(models_to_use) THEN issued
                          ELSE Len(models_to_use) - 1)

\* every model was called, with a failure among the answers, and the run
\* returned having slept between the calls only
C29_Witness ==
    /\ pc2 = "returned"
    /\ Len(responses2) = Len(models_to_use)
    /\ Len(models_to_use) >= 2
    /\ sleeps2 = Len(models_to_use) - 1
    /\ \E k \in 1..Len(responses2) : responses2[k].kind = "failure"
    /\ \E k \in 1..Len(responses2) : responses2[k].kind = "ok"

\* the last step was a run in which the context the caller entered differed
\* from the one the present inputs of the session held
ContextDiffered ==
    /\ last_i = "edit"
    /\ before_i.data.present
    /\ before_i.data.value["context"] # context_w

\* the session holds the inputs it held with the context replaced, the
\* document was saved again from them, and phases 2..6 are as they were
OnlyContextUpdated ==
    /\ extracted_data = Present([before_i.data.value EXCEPT !["context"] = context_w])
    /\ extracted_doc = save_state_to_file(1, extracted_data)
    /\ json_load(1, extracted_doc.json) = extracted_data
    /\ later = before_i.later

DocumentTexts == {"market_chapter", "pitch_deck_text", "market_report_text"}

\* Load Saved Inputs took the three texts from the document and kept the
\* context of the caller; the document and phases 2..6 are as they were
LoadKeptContext ==
    (last_i = "load" /\ before_i.doc.exists) =>
        /\ extracted_data.present
        /\ extracted_data.value["context"] = context_w
        /\ context_w = before_i.context
        /\ \A key \in DocumentTexts :
              extracted_data.value[key] = json_load(1, before_i.doc.json).value[key]
        /\ later = before_i.later

C30_LoadWitness ==
    /\ last_i = "load"
    /\ before_i.doc.exists
    /\ before_i.data.present
    /\ \E key \in DocumentTexts : extracted_data.value[key] # before_i.data.value[key]
    /\ extracted_data.value["context"] = context_w

\* the document of phase j exists and json.load reads it
LoadsAsJson(j) == store_n[j].kind \in {"artifact", "null"}

\* C31: when the script run that starts a new session has ended, the session
\* artifact of each phase is present if and only if the document of that
\* phase exists and loads as JSON, whatever the documents of the other
\* phases are.
C31_StartupLoads ==
    pcn # "fresh" =>
        \A j \in Phases : (session_n[j].kind = "artifact") <=> LoadsAsJson(j)

\* with None for the read of a missing key, every document that loads to a
\* value other than null is present, and one that does not load stops no other
C31_LoadsUnderNone ==
    (pcn # "fresh" /\ read_n = "None") =>
        /\ pcn = "started"
        /\ \A j \in Phases : (session_n[j].kind = "artifact") <=> store_n[j].kind = "artifact"

\* the record carries the marker of a record that was not selected
HasMarker(r) == r.de_risking_plan.present /\ "status" \in r.de_risking_plan.keys

SameShape(a, b) ==
    /\ a.calls = b.calls
    /\ Len(a.returned) = Len(b.returned)
    /\ \A i \in 1..Len(a.returned) : HasMarker(a.returned[i]) <=> HasMarker(b.returned[i])

\* C32: two invocations of develop_derisking_strategies on the same Phase 4
\* artifact, whatever the Gateway answers in each, both return, issue calls
\* for the same records and return lists of the length of the artifact in
\* which the same records carry the marker of a record that was not selected.
C32_SameShapeTwice ==
    pct = "twice" =>
        /\ ~first_t.raised /\ ~second_t.raised
        /\ Len(first_t.returned) = Len(given_t)
        /\ SameShape(first_t, second_t)

\* two invocations that both return have the same shape
C32_SameShapeIfReturned ==
    (pct = "twice" /\ ~first_t.raised /\ ~second_t.raised) =>
        /\ Len(first_t.returned) = Len(given_t)
        /\ SameShape(first_t, second_t)

\* C33: from an empty store and an empty session, in every state the
\* front-end reaches by phase runs, resets, Load Saved buttons, Load Demo
\* Data and new sessions, the phases whose session artifact is present are a
\* prefix of the phase order.
C33_PresentIsPrefix ==
    \A j \in 2..6 : session[j] # None => session[j - 1] # None

\* a reset of phase 3 was processed in a session that had lost its Phase 2
\* artifact: the run loaded it again and left phases 3..6 absent though their
\* documents exist
C33_Witness ==
    /\ just_reset = 3
    /\ before[1] # None
    /\ before[2] = None
    /\ session[2] # None
    /\ session[3] = None
    /\ files[3].kind = "artifact"

\* the marker names a phase only while exactly that handler runs
C34_MarkerState ==
    /\ Cardinality(running_h) <= 1
    /\ running_h = {} => processing_phase = "None"
    /\ \A k \in Phases : processing_phase = PhaseName(k) => running_h = {k}

\* C34: processing_phase names phase k only while the handler of phase k
\* runs; a handler starts only when processing_phase is None, so at most one
\* phase is running; and when a handler ends, whether its phase function
\* returned or raised, processing_phase is None again.
C34_MarkerFollowsHandler ==
    [][ /\ C34_MarkerState
        /\ C34_MarkerState'
        /\ \A k \in Phases :
              /\ (k \notin running_h /\ k \in running_h') =>
                    processing_phase = "None" /\ processing_phase' = PhaseName(k)
              /\ (k \in running_h /\ k \notin running_h') => processing_phase' = "None" ]_vars

\* the handler of a later phase has ended by raising, and the marker is None
C34_Witness ==
    /\ ended_h[2] = "raised"
    /\ ended_h[1] > 1
    /\ running_h = {}
    /\ processing_phase = "None"

\* C35: a reset request is consumed exactly once.  The script run that
\* processes it leaves reset_trigger False and reset_phase None; no step
\* clears a session artifact except the script run processing a request; so
\* an artifact that a phase run produced after the reset is still present
\* after later script runs, as long as no new reset is requested.
C35_RequestConsumedOnce ==
    [][ /\ reset_trigger => ~reset_trigger' /\ reset_phase' = "None"
        /\ (\E j \in Phases : session[j] # None /\ session'[j] = None) => reset_trigger
        /\ since_reset'[1] \in {"produced", "rerun"} => session'[since_reset'[2]] # None ]_vars

\* Phase 3 was reset, a phase run then produced its artifact again, and a
\* later script run happened with the artifact still present
C35_Witness ==
    /\ since_reset = <<"rerun", 3>>
    /\ session[3] # None
    /\ ~reset_trigger
    /\ reset_phase = "None"

ThreeTiers == {"High", "Medium", "Low"}

TierCount(l, tier) == Len(SelectSeq(l, LAMBDA r : r.risk_tier = tier))

StatsSum(s) == s.high_risks + s.medium_risks + s.low_risks

\* C36: in the bundle perform_risk_assessment returns and in every bundle
\* rebuilt from a persisted list, total_risks_assessed is the number of
\* records and high_risks, medium_risks, low_risks count the records whose
\* risk_tier is exactly High, Medium, Low; the three add up to the total
\* exactly when no record carries another tier.
C36_StatsCountTiers ==
    pcq = "built" =>
        /\ bundle_q.summary_stats.total_risks_assessed = Len(bundle_q.risks)
        /\ bundle_q.summary_stats.high_risks = TierCount(bundle_q.risks, "High")
        /\ bundle_q.summary_stats.medium_risks = TierCount(bundle_q.risks, "Medium")
        /\ bundle_q.summary_stats.low_risks = TierCount(bundle_q.risks, "Low")
        /\ (StatsSum(bundle_q.summary_stats) = Len(bundle_q.risks))
              <=> (\A i \in 1..Len(bundle_q.risks) : bundle_q.risks[i].risk_tier \in ThreeTiers)

\* a new session rebuilt the bundle from a list holding a High record and a
\* placeholder record; the three counts add up to less than the total
C36_Witness ==
    /\ pcq = "built"
    /\ via_q = "startup"
    /\ bundle_q.risks = list_q
    /\ \E i, j \in 1..Len(list_q) : list_q[i].risk_tier = "High" /\ list_q[j].risk_tier = "Error"
    /\ bundle_q.summary_stats.high_risks > 0
    /\ StatsSum(bundle_q.summary_stats) < bundle_q.summary_stats.total_risks_assessed

\* perform_risk_assessment returned placeholders only: the counts are all zero
C36_PlaceholderWitness ==
    /\ pcq = "built"
    /\ via_q = "assessed"
    /\ StatsSum(bundle_q.summary_stats) = 0
    /\ bundle_q.summary_stats.total_risks_assessed = NumFinal

\* C37: a run of run_arcee_maestro_only over an existing document that
\* loads changes only the entry of arcee-ai/maestro-reasoning: every other
\* model key is written back with its 10 entries unchanged, and the arcee
\* entry has exactly 10 entries whether the call succeeded or failed.
C37_OnlyArceeEntry ==
    [][ (pc2' = "patched" /\ pms_doc.exists) =>
            /\ pms_doc'.exists
            /\ DOMAIN pms_doc'.data = DOMAIN pms_doc.data \cup {ArceeModel}
            /\ \A model \in DOMAIN pms_doc.data \ {ArceeModel} :
                  /\ pms_doc'.data[model] = pms_doc.data[model]
                  /\ Len(pms_doc'.data[model]) = RequiredCount
            /\ Len(pms_doc'.data[ArceeModel]) = RequiredCount ]_vars

\* the script ran after a Phase 2 run that returned: the failed call left ten
\* sentinels for arcee beside the entries of the run's models
C37_Witness ==
    /\ pc2 = "patched"
    /\ pms_doc.exists
    /\ DOMAIN pms_doc.data = DOMAIN results \cup {ArceeModel}
    /\ DOMAIN results # {}
    /\ \A model \in DOMAIN results : pms_doc.data[model] = results[model]
    /\ pms_doc.data[ArceeModel] = [k \in 1..RequiredCount |-> FailedSentinel(ArceeModel)]

\* the call succeeded with more lines than ten: the entry holds the first ten
C37_TruncatedWitness ==
    /\ pc2 = "patched"
    /\ DOMAIN results # {}
    /\ DOMAIN results \subseteq DOMAIN pms_doc.data
    /\ Len(pms_doc.data[ArceeModel]) = RequiredCount
    /\ pms_doc.data[ArceeModel][RequiredCount] = QuestionLine(RequiredCount)

HasHint(payload) == payload.response_format = "json_object"

\* the request carries the hint exactly when the caller asked for JSON and
\* the model identifier passes the test of line 117
C39_HintIffSupported ==
    pcg # "idle" => (HasHint(payload_g) <=> (json_g /\ SupportsJsonObject(model_g)))

\* C39: a Gateway request carries response_format json_object if and only if
\* the caller passed want_json and the model identifier is one the gateway
\* treats as supporting structured output; and every call made with the
\* high-reasoning model of phases 3..6, which all pass want_json, carries it.
C39_HintOnHighReasoningCalls ==
    pcg # "idle" =>
        /\ HasHint(payload_g) <=> (json_g /\ SupportsJsonObject(model_g))
        /\ (model_g = HIGH_REASONING_MODEL /\ json_g) => HasHint(payload_g)

\* the response holds a text that extract_risk_assessment parses to a value
ScriptParses(response) ==
    /\ response.kind = "ok"
    /\ extract_risk_assessment(response).returned # NoneJson4

ScriptWrote == risk_doc' # risk_doc \/ risk_json' # risk_json

\* the runner writes only a value parsed from the response, as the model gave
\* it, and every run that made a call without getting one leaves the document
\* as it was
C38_WritesOnlyParsed ==
    [][ (pc45' = "scripted" /\ response4' # NoCall) =>
            /\ ScriptWrote =>
                  /\ ScriptParses(response4')
                  /\ risk_json' = ScriptJson(extract_risk_assessment(response4').returned)
            /\ ~ScriptParses(response4') => ~ScriptWrote ]_vars

\* C38: the standalone runner writes risk_assessment.json only when the
\* Gateway returned a response that parses as JSON; on a Gateway failure or a
\* parse failure it returns None, leaves an existing risk_assessment.json
\* unchanged and produces no placeholder records.
C38_WritesParsedElseReturnsNone ==
    [][ (pc45' = "scripted" /\ response4' # NoCall) =>
            /\ ScriptWrote =>
                  /\ ScriptParses(response4')
                  /\ risk_json' = ScriptJson(extract_risk_assessment(response4').returned)
            /\ ~ScriptParses(response4') => (~ScriptWrote /\ pcr' = "returned") ]_vars

\* the runner made a call over the list a Phase 4 run had written, got a text
\* that is not JSON, returned and left the list in place
C38_KeptWitness ==
    /\ pc45 = "scripted"
    /\ pcr = "returned"
    /\ response4.kind = "ok"
    /\ ~ScriptParses(response4)
    /\ risk_doc.exists
    /\ risk_doc.data = bundle.risks
    /\ Len(risk_doc.data) = NumFinal

(***************************************************************************)
(* Specifications.                                                         *)
(***************************************************************************)
InitAll ==
    InitP2 /\ InitP3 /\ InitP45 /\ InitFresh /\ InitP6 /\ InitJ /\ InitG /\ InitPipe /\ InitS /\ InitI /\ InitN /\ InitT /\ InitH /\ InitK /\ InitQ

InitApp ==
    InitP2 /\ InitP3 /\ InitP45 /\ InitStore /\ InitP6 /\ InitJ /\ InitG /\ InitPipe /\ InitS /\ InitI /\ InitN /\ InitT /\ InitH /\ InitK /\ InitQ

SpecP2 == InitAll /\ [][NextP2 /\ UNCHANGED <<vars3, vars45, varsApp, vars6, varsJ, varsG, varsPipe, varsS, varsI, varsN, varsT, varsH, varsK, varsQ>>]_vars

NextP3 == P3Call

SpecP3 == InitAll /\ [][NextP3 /\ UNCHANGED <<vars2, vars45, varsApp, vars6, varsJ, varsG, varsPipe, varsS, varsI, varsN, varsT, varsH, varsK, varsQ>>]_vars

SpecP45 == InitAll /\ [][NextP45 /\ UNCHANGED <<vars2, vars3, varsApp, vars6, varsJ, varsG, varsPipe, varsS, varsI, varsN, varsT, varsH, varsK, varsQ>>]_vars

\* the front-end and the CLI driver over an artifact store left by earlier use
SpecApp == InitApp /\ [][NextApp /\ UNCHANGED <<vars2, vars3, vars45, vars6, varsJ, varsG, varsPipe, varsS, varsI, varsN, varsT, varsH, varsK, varsQ>>]_vars

\* the front-end alone, from an empty artifact store and an empty session
SpecFresh == InitAll /\ [][NextFront /\ UNCHANGED <<vars2, vars3, vars45, vars6, varsJ, varsG, varsPipe, varsS, varsI, varsN, varsT, varsH, varsK, varsQ>>]_vars

InitReflect ==
    InitP2 /\ InitP3 /\ InitP45 /\ InitFresh /\ InitJ /\ InitG /\ InitPipe /\ InitS /\ InitI /\ InitN /\ InitT /\ InitH /\ InitK /\ InitQ
    /\ \E doc \in Docs6 : InitP6With(doc)

\* Phase 6 alone, called from the CLI or from the front-end, over a store in
\* which strategic_reflection.json is missing or holds an earlier reflection.
SpecP6 == InitReflect /\ [][NextP6 /\ UNCHANGED <<vars2, vars3, vars45, varsApp, varsJ, varsG, varsPipe, varsS, varsI, varsN, varsT, varsH, varsK, varsQ>>]_vars

InitParse ==
    /\ InitP2 /\ InitP3 /\ InitP45 /\ InitFresh /\ InitP6 /\ InitG /\ InitPipe /\ InitS /\ InitI /\ InitN /\ InitT /\ InitH /\ InitK /\ InitQ
    /\ \E lead \in Leads, opener \in Openers, trail \in Trails, denoted \in JsonValues :
           InitJWith(lead, opener, trail, denoted)

\* The parser applied once to each response text.
SpecParse == InitParse /\ [][NextParse /\ UNCHANGED <<vars2, vars3, vars45, varsApp, vars6, varsG, varsPipe, varsS, varsI, varsN, varsT, varsH, varsK, varsQ>>]_vars

InitGateway ==
    /\ InitP2 /\ InitP3 /\ InitP45 /\ InitFresh /\ InitP6 /\ InitJ /\ InitPipe /\ InitS /\ InitI /\ InitN /\ InitT /\ InitH /\ InitK /\ InitQ
    /\ \E model \in GatewayModels, is_json_output \in BOOLEAN, post \in Posts :
           InitGWith(model, is_json_output, post)

\* One Gateway call for each model, mode and behaviour of the request.
SpecGateway ==
    InitGateway /\ [][NextGateway /\ UNCHANGED <<vars2, vars3, vars45, varsApp, vars6, varsJ, varsPipe, varsS, varsI, varsN, varsT, varsH, varsK, varsQ>>]_vars

\* The session of phase handlers, and the same with a user who goes on
\* clicking whichever phase button the page shows enabled: after every handler
\* the script reruns (st.rerun in its finally) and shows the next button.
PipeStep == NextPipe /\ UNCHANGED <<vars2, vars3, vars45, varsApp, vars6, varsJ, varsG, varsS, varsI, varsN, varsT, varsH, varsK, varsQ>>

SpecPipe == InitAll /\ [][PipeStep]_vars

\* the handler of a phase whose button is enabled and that has not run yet runs
PipeFirstRun ==
    \E k \in PipePhases : PipeButton(k) /\ k \notin pipe_ran /\ pipe_ran' = pipe_ran \cup {k}

SpecPipeFair == InitAll /\ [][PipeStep]_vars /\ WF_pipe_ran(PipeFirstRun)

InitSave ==
    /\ InitP2 /\ InitP3 /\ InitP45 /\ InitFresh /\ InitP6 /\ InitJ /\ InitG /\ InitPipe /\ InitI /\ InitN /\ InitT /\ InitH /\ InitK /\ InitQ
    /\ \E k \in Phases :
         \E value \in {Present(v) : v \in SessionValues(k)}
                      \cup (IF k = 6 THEN {Absent} ELSE {}) :
             InitSWith(k, value)

\* Every artifact a phase function can hand to its handler is saved and then
\* loaded back in each of the three ways; the Phase 6 handler also saves None.
SpecSave == InitSave /\ [][NextStore /\ UNCHANGED <<vars2, vars3, vars45, varsApp, vars6, varsJ, varsG, varsPipe, varsI, varsN, varsT, varsH, varsK, varsQ>>]_vars

\* the front-end session around the context field, started from every
\* document a writer leaves
InitInputs ==
    /\ InitP2 /\ InitP3 /\ InitP45 /\ InitFresh /\ InitP6 /\ InitJ /\ InitG /\ InitPipe /\ InitS /\ InitN /\ InitT /\ InitH /\ InitK /\ InitQ
    /\ \E held \in LaterStates :
         \E doc \in {NoDocument}
                    \cup {save_state_to_file(1, Present(ExtractedData(context))) :
                             context \in InputContexts}
                    \cup {save_state_to_file(1, Present(PlaceholderInputs(context))) :
                             context \in InputContexts} :
             InitInputsWith(doc, held)

SpecInputs == InitInputs /\ [][NextInputs /\ UNCHANGED <<vars2, vars3, vars45, varsApp, vars6, varsJ, varsG, varsPipe, varsS, varsN, varsT, varsH, varsK, varsQ>>]_vars

\* a new session over every store of documents
StartDocs == {NoFile, Artifact(0, 0), NullDoc, CorruptDoc}

InitStart ==
    /\ InitP2 /\ InitP3 /\ InitP45 /\ InitFresh /\ InitP6 /\ InitJ /\ InitG /\ InitPipe /\ InitS /\ InitI /\ InitT /\ InitH /\ InitK /\ InitQ
    /\ \E store \in [Phases -> StartDocs] : InitStartWith(store)

SpecStart == InitStart /\ [][NextStart /\ UNCHANGED <<vars2, vars3, vars45, varsApp, vars6, varsJ, varsG, varsPipe, varsS, varsI, varsT, varsH, varsK, varsQ>>]_vars

\* two invocations of Phase 5 on each Phase 4 artifact
InitTwice ==
    /\ InitP2 /\ InitP3 /\ InitP45 /\ InitFresh /\ InitP6 /\ InitJ /\ InitG /\ InitPipe /\ InitS /\ InitI /\ InitN /\ InitH /\ InitK /\ InitQ
    /\ \E risks \in TwiceLists : InitTwiceWith(risks)

SpecTwice == InitTwice /\ [][NextTwice /\ UNCHANGED <<vars2, vars3, vars45, varsApp, vars6, varsJ, varsG, varsPipe, varsS, varsI, varsN, varsH, varsK, varsQ>>]_vars

\* the front-end alone, from an empty store and session, with new sessions
NextRestart == NextFront \/ NewSession

SpecRestart == InitAll /\ [][NextRestart /\ UNCHANGED <<vars2, vars3, vars45, vars6, varsJ, varsG, varsPipe, varsS, varsI, varsN, varsT, varsH, varsK, varsQ>>]_vars

\* the phase handlers of the front-end and their marker
InitHandlers ==
    InitP2 /\ InitP3 /\ InitP45 /\ InitFresh /\ InitP6 /\ InitJ /\ InitG /\ InitPipe /\ InitS /\ InitI /\ InitN /\ InitT /\ InitH /\ InitK /\ InitQ

SpecHandlers == InitHandlers /\ [][NextHandlers /\ UNCHANGED <<vars2, vars3, vars45, varsApp, vars6, varsJ, varsG, varsPipe, varsS, varsI, varsN, varsT, varsK, varsQ>>]_vars

\* the script runs of one session and its reset requests, from an empty store
SpecConsumed == InitAll /\ [][NextConsumed /\ UNCHANGED <<vars2, vars3, vars45, vars6, varsJ, varsG, varsPipe, varsS, varsI, varsN, varsT, varsH, varsQ>>]_vars

\* the summary statistics, over every builder of a bundle and every persisted list
InitStats ==
    /\ \E l \in PersistedLists : InitStatsWith(l)
    /\ InitP2 /\ InitP3 /\ InitP45 /\ InitFresh /\ InitP6 /\ InitJ /\ InitG /\ InitPipe /\ InitS /\ InitI /\ InitN /\ InitT /\ InitH /\ InitK

SpecStats == InitStats /\ [][NextStats /\ UNCHANGED <<vars2, vars3, vars45, varsApp, vars6, varsJ, varsG, varsPipe, varsS, varsI, varsN, varsT, varsH, varsK>>]_vars

====
